---- MODULE Spec2Model ----
(***************************************************************************)
(* The ABCI application of the db3 node (src/src/node/src/abci_impl.rs):   *)
(* info, begin_block, query, check_tx, deliver_tx and commit over the      *)
(* three pending queues, the NodeState counters and the authenticated      *)
(* store behind its mutex.                                                 *)
(*                                                                         *)
(* Every piece of program state is a function of the replica, so that the  *)
(* same handlers can be run by one node (Spec) or by two nodes fed the     *)
(* same consensus-ordered calls (SpecReplicas).                            *)
(***************************************************************************)
EXTENDS Integers, Sequences, FiniteSets, TLC

(***************************************************************************)
(* Bounds of the model.                                                    *)
(***************************************************************************)
\* accepted deliver_tx calls over a run (caps the queues and the store log)
MaxTx == 2
\* width of a counter in bits: the AtomicU64 counters, scaled down so that a run can
\* take one to its largest value
CounterBits == 4

Replicas == {1, 2}

CounterModulus == 2 ^ CounterBits

(***************************************************************************)
(* Raw transactions.  The bytes of a RequestCheckTx/RequestDeliverTx are   *)
(* described by what the decoders and verifiers make of them:              *)
(*   env_ok    WriteRequest::decode succeeds                               *)
(*   sig_ok    DB3Verifier::verify(payload, signature) succeeds            *)
(*   account   the account verify recovers                                 *)
(*   ptype     PayloadType::from_i32(payload_type), "Unknown" for None     *)
(*   body_ok   the payload decodes as the message of its type              *)
(*   nonce     DatabaseMutation.meta: 0 for None, else meta.nonce          *)
(*   valid     KvStore::is_valid(mutation)                                 *)
(*   qs_ok     verify_query_session(query_session) succeeds                *)
(*   client    the client account verify_query_session recovers            *)
(*   ninfo     query_session.node_query_session_info is Some               *)
(*   store_ok  the store accepts the record when it is applied             *)
(*   bytes     bytes the store reports written for a mutation              *)
(***************************************************************************)
Tx(id, env_ok, sig_ok, ptype, body_ok, nonce, valid, qs_ok, ninfo, store_ok, bytes) ==
    [id |-> id, env_ok |-> env_ok, sig_ok |-> sig_ok, account |-> "acct",
     ptype |-> ptype, body_ok |-> body_ok, nonce |-> nonce, valid |-> valid,
     qs_ok |-> qs_ok, client |-> "client", ninfo |-> ninfo,
     store_ok |-> store_ok, bytes |-> bytes]

RawTxs ==
    { Tx(1,  FALSE, FALSE, "Unknown",      FALSE, 0, FALSE, FALSE, FALSE, FALSE, 0),
      Tx(2,  TRUE,  FALSE, "Mutation",     TRUE,  0, TRUE,  FALSE, FALSE, TRUE,  1),
      Tx(3,  TRUE,  TRUE,  "Unknown",      FALSE, 0, FALSE, FALSE, FALSE, FALSE, 0),
      Tx(4,  TRUE,  TRUE,  "Database",     FALSE, 0, FALSE, FALSE, FALSE, FALSE, 0),
      Tx(5,  TRUE,  TRUE,  "Database",     TRUE,  0, FALSE, FALSE, FALSE, TRUE,  0),
      Tx(6,  TRUE,  TRUE,  "Database",     TRUE,  2, FALSE, FALSE, FALSE, TRUE,  0),
      Tx(7,  TRUE,  TRUE,  "Mutation",     FALSE, 0, FALSE, FALSE, FALSE, FALSE, 0),
      Tx(8,  TRUE,  TRUE,  "Mutation",     TRUE,  0, FALSE, FALSE, FALSE, TRUE,  1),
      Tx(9,  TRUE,  TRUE,  "Mutation",     TRUE,  0, TRUE,  FALSE, FALSE, TRUE,  2),
      Tx(10, TRUE,  TRUE,  "QuerySession", FALSE, 0, FALSE, FALSE, FALSE, FALSE, 0),
      Tx(11, TRUE,  TRUE,  "QuerySession", TRUE,  0, FALSE, FALSE, TRUE,  FALSE, 0),
      Tx(12, TRUE,  TRUE,  "QuerySession", TRUE,  0, FALSE, TRUE,  TRUE,  TRUE,  0) }

\* Transactions that decode and verify but go wrong later: a settlement without
\* node session info, and well-formed records of each kind that the store fails
\* to apply.
FaultyTxs ==
    { Tx(14, TRUE,  TRUE,  "QuerySession", TRUE,  0, FALSE, TRUE,  FALSE, TRUE,  0),
      Tx(15, TRUE,  TRUE,  "Mutation",     TRUE,  0, TRUE,  FALSE, FALSE, FALSE, 1),
      Tx(16, TRUE,  TRUE,  "QuerySession", TRUE,  0, FALSE, TRUE,  TRUE,  FALSE, 0),
      Tx(17, TRUE,  TRUE,  "Database",     TRUE,  3, FALSE, FALSE, FALSE, FALSE, 0) }

\* A mutation for which the store reports a write of half the range of a counter, and
\* a settlement to go with it.
LargeTxs ==
    { Tx(18, TRUE,  TRUE,  "Mutation",     TRUE,  0, TRUE,  FALSE, FALSE, TRUE,
         CounterModulus \div 2),
      Tx(19, TRUE,  TRUE,  "QuerySession", TRUE,  0, FALSE, TRUE,  TRUE,  TRUE,  0) }

\* the tx field of a call that carries no transaction
NoTx == Tx(0, FALSE, FALSE, "Unknown", FALSE, 0, FALSE, FALSE, FALSE, FALSE, 0)

\* TxId::from(request.tx): a digest of the raw bytes
TxIdFrom(tx) == <<"txid", tx.id>>

\* the typed payload a successful decode yields
DecodePayload(tx) ==
    [ptype |-> tx.ptype, of |-> tx.id, nonce |-> tx.nonce, valid |-> tx.valid,
     store_ok |-> tx.store_ok, bytes |-> tx.bytes]

\* query_session.node_query_session_info of a decoded QuerySession
NodeQuerySessionInfo(tx) ==
    [ptype |-> "QuerySessionInfo", of |-> tx.id, nonce |-> 0, valid |-> FALSE,
     store_ok |-> tx.store_ok, bytes |-> 0]

(***************************************************************************)
(* Program state, per replica.                                             *)
(***************************************************************************)
VARIABLES
    pending_mutation,       \* AbciImpl.pending_mutation: <<addr, tx_id, mutation>>
    pending_query_session,  \* AbciImpl.pending_query_session: <<client, addr, tx_id, info>>
    pending_databases,      \* AbciImpl.pending_databases: <<addr, database mutation, tx_id>>
    total_storage_bytes,    \* NodeState.total_storage_bytes
    total_mutations,        \* NodeState.total_mutations
    total_query_sessions,   \* NodeState.total_query_sessions
    store,                  \* the AuthStorage inside AbciImpl.node_store
    store_lock,             \* the node_store mutex: "free", "commit" or "poisoned"
    poisoned,               \* the pending queues whose mutex is poisoned
    pc,                     \* where the consensus connection's thread stands
    drained,                \* commit's locals: the drained vectors and their lengths
                            \* (and, as history, how many records were staged when
                            \* the commit began)
    out,                    \* what the replica's latest step returned to its caller
    app_hash,               \* history: the hash the latest commit returned
    staged,                 \* history: records staged since the last commit, in delivery order
    at_commit,              \* history: the counters when the latest commit began
    inbox,                  \* consensus-ordered calls a replica has still to receive
    active,                 \* the replicas whose ABCI service runs
    start,                  \* the start command: its position, the outcome of the
                            \* store's init, and the services it has started
    console                 \* the console client: the command line it was given last
                            \* and what process_cmd made of it

queues == <<pending_mutation, pending_query_session, pending_databases>>
counters == <<total_storage_bytes, total_mutations, total_query_sessions>>
vars == <<pending_mutation, pending_query_session, pending_databases,
          total_storage_bytes, total_mutations, total_query_sessions,
          store, store_lock, poisoned, pc, drained, out, app_hash, staged, at_commit,
          inbox, active, start, console>>

(***************************************************************************)
(* The authenticated store, by its interface.  Its state is the sequence   *)
(* of mutating calls it has accepted; the root hash is a digest of the     *)
(* calls up to the last commit.                                            *)
(***************************************************************************)
\* one call in the store's log
StoreCall(op, client, addr, nonce, tx_id, payload) ==
    [op |-> op, client |-> client, addr |-> addr, nonce |-> nonce, tx_id |-> tx_id,
     payload |-> payload]

CommitCall == StoreCall("commit", "", "", 0, <<"txid", 0>>, DecodePayload(NoTx))

RECURSIVE LastCommit(_)
LastCommit(log) ==
    IF log = <<>> THEN 0
    ELSE IF log[Len(log)].op = "commit" THEN Len(log)
    ELSE LastCommit(SubSeq(log, 1, Len(log) - 1))

\* the digest covers the committed content, not where the commits fell
Digest(log) ==
    [digest |-> SelectSeq(SubSeq(log, 1, LastCommit(log)), LAMBDA e : e.op # "commit")]

NewStore == [log |-> <<>>, cur_height |-> 0, cur_time |-> 0,
             last_height |-> 0, last_hash |-> Digest(<<>>)]

\* s.root_hash()
StoreRootHash(s) == Digest(s.log)

\* s.get_last_block_state()
StoreLastBlockState(s) == [block_height |-> s.last_height, abci_hash |-> s.last_hash]

\* s.begin_block(height, time)
StoreBeginBlock(s, height, time) == [s EXCEPT !.cur_height = height, !.cur_time = time]

\* s.apply_mutation(addr, tx_id, mutation) -> Result<(gas, bytes)>
StoreApplyMutation(s, addr, tx_id, mutation) ==
    IF mutation.store_ok
    THEN [ok |-> TRUE, bytes |-> mutation.bytes,
          store |-> [s EXCEPT !.log = Append(@, StoreCall("apply_mutation", "", addr, 0,
                                                         tx_id, mutation))]]
    ELSE [ok |-> FALSE, bytes |-> 0, store |-> s]

\* s.apply_query_session(client, addr, tx_id, info) -> Result<()>
StoreApplyQuerySession(s, client, addr, tx_id, info) ==
    IF info.store_ok
    THEN [ok |-> TRUE,
          store |-> [s EXCEPT !.log = Append(@, StoreCall("apply_query_session", client,
                                                         addr, 0, tx_id, info))]]
    ELSE [ok |-> FALSE, store |-> s]

\* s.apply_database(addr, nonce, tx_id, dm) -> Result<()>
StoreApplyDatabase(s, addr, nonce, tx_id, dm) ==
    IF dm.store_ok
    THEN [ok |-> TRUE,
          store |-> [s EXCEPT !.log = Append(@, StoreCall("apply_database", "", addr, nonce,
                                                         tx_id, dm))]]
    ELSE [ok |-> FALSE, store |-> s]

\* s.commit() -> Result<hash>; whether the store manages to commit is up to the
\* store (commit_ok)
StoreCommit(s, commit_ok) ==
    LET log2 == Append(s.log, CommitCall)
    IN  IF commit_ok
        THEN [ok |-> TRUE, hash |-> Digest(log2),
              store |-> [s EXCEPT !.log = log2, !.last_height = s.cur_height,
                                  !.last_hash = Digest(log2)]]
        ELSE [ok |-> FALSE, hash |-> Digest(s.log), store |-> s]

(***************************************************************************)
(* Responses.                                                              *)
(***************************************************************************)
NoHash == [digest |-> <<StoreCall("none", "", "", 0, <<"txid", 0>>, DecodePayload(NoTx))>>]

Response(op, tx, code, log, info, event, hash, height) ==
    [op |-> op, tx |-> tx, code |-> code, log |-> log, info |-> info,
     event |-> event, hash |-> hash, height |-> height]

NoResponse == Response("none", 0, 0, "", "", "", NoHash, 0)
\* the thread unwound in a todo!() or an unwrap(): no response is sent
Aborted(op, tx) == Response(op, tx, -1, "", "", "", NoHash, 0)

NoDrained == [m |-> <<>>, q |-> <<>>, d |-> <<>>, m_len |-> 0, q_len |-> 0, d_len |-> 0,
              begun |-> 0]

(***************************************************************************)
(* AbciImpl::new, on every replica, over a freshly initialised store.      *)
(***************************************************************************)
InitNode ==
    /\ pending_mutation = [r \in Replicas |-> <<>>]
    /\ pending_query_session = [r \in Replicas |-> <<>>]
    /\ pending_databases = [r \in Replicas |-> <<>>]
    /\ total_storage_bytes = [r \in Replicas |-> 0]
    /\ total_mutations = [r \in Replicas |-> 0]
    /\ total_query_sessions = [r \in Replicas |-> 0]
    /\ store = [r \in Replicas |-> NewStore]
    /\ store_lock = [r \in Replicas |-> "free"]
    /\ poisoned = [r \in Replicas |-> {}]
    /\ pc = [r \in Replicas |-> "idle"]
    /\ drained = [r \in Replicas |-> NoDrained]
    /\ out = [r \in Replicas |-> NoResponse]
    /\ app_hash = [r \in Replicas |-> NoHash]
    /\ staged = [r \in Replicas |-> <<>>]
    /\ at_commit = [r \in Replicas |-> <<0, 0, 0>>]
    /\ inbox = [r \in Replicas |-> <<>>]

\* the start command once everything is up
Started == [at |-> "serving", init |-> "ok", services |-> {"abci", "json_rpc", "grpc"}]

\* a console that has not been given a command
NoCommand == [parts |-> <<>>, printed |-> "", submitted |-> <<>>]

Init ==
    /\ InitNode
    /\ active = {1}
    /\ start = [r \in Replicas |-> Started]
    /\ console = NoCommand

InitReplicas ==
    /\ InitNode
    /\ active = Replicas
    /\ start = [r \in Replicas |-> Started]
    /\ console = NoCommand

Upd(f, r, v) == [f EXCEPT ![r] = v]

\* a lock() that hands back the guard although the mutex is poisoned
lock_err_ignored(r, mutex) == FALSE

\* a panic ends the thread it happens on
thread_after(r, response) == IF response.code = -1 THEN "panicked" ELSE pc[r]

\* Mutex::lock() returns Err: the mutex was poisoned by a panic under its guard
lock_err(r, mutex) ==
    IF mutex = "node_store" THEN store_lock[r] = "poisoned" ELSE mutex \in poisoned[r]

(***************************************************************************)
(* The consensus engine hands every replica the same calls in the same     *)
(* order.  A replica that is level with the engine takes a fresh call,     *)
(* which is then owed to every other running replica; a replica that is    *)
(* behind takes the call it is owed.  The engine issues a fresh call once  *)
(* every replica has taken the previous one (they may still be running it).*)
(***************************************************************************)
Header(present, has_time, height, time) ==
    [present |-> present, has_time |-> has_time, height |-> height, time |-> time]

NoHeader == Header(FALSE, FALSE, 0, 0)
Times == {10}
Heights == {1}
Headers == {NoHeader, Header(TRUE, FALSE, 1, 0)}
           \cup {Header(TRUE, TRUE, h, t) : h \in Heights, t \in Times}

Call(name, tx, header) == [name |-> name, tx |-> tx, header |-> header]

ConsensusCall(r, call) ==
    IF inbox[r] # <<>>
    THEN /\ call = Head(inbox[r])
         /\ inbox' = Upd(inbox, r, Tail(inbox[r]))
    ELSE /\ \A q \in active \ {r} : inbox[q] = <<>>
         /\ inbox' = [q \in Replicas |->
                        IF q \in active \ {r} THEN Append(inbox[q], call) ELSE inbox[q]]

\* records accepted so far: applied ones in the store log, those still queued and
\* those commit holds drained
Accepted(r) ==
    Len(SelectSeq(store[r].log, LAMBDA e : e.op # "commit"))
    + Len(pending_mutation[r]) + Len(pending_query_session[r]) + Len(pending_databases[r])
    + Len(drained[r].m) + Len(drained[r].q) + Len(drained[r].d)

(***************************************************************************)
(* fn info                                                                 *)
(***************************************************************************)
\* an info that reports the block begun rather than the block last committed
InfoCurrentBlock(r) ==
    /\ store_lock[r] # "commit"
    /\ out' = Upd(out, r,
          IF lock_err(r, "node_store")
          THEN Aborted("info", 0)
          ELSE Response("info", 0, 0, "", "", "", StoreRootHash(store[r]),
                        store[r].cur_height))
    /\ UNCHANGED <<queues, counters, store, store_lock, poisoned, pc, drained, app_hash,
                   at_commit, staged, inbox, active, start, console>>

Info(r) ==
    /\ store_lock[r] # "commit"
    /\ out' = Upd(out, r,
          IF lock_err(r, "node_store")
          THEN Aborted("info", 0)
          ELSE LET s == StoreLastBlockState(store[r])
               IN  Response("info", 0, 0, "", "", "", s.abci_hash, s.block_height))
    /\ UNCHANGED <<queues, counters, store, store_lock, poisoned, pc, drained, app_hash,
                   at_commit, staged, inbox, active, start, console>>

(***************************************************************************)
(* fn begin_block                                                          *)
(***************************************************************************)
\* the body of begin_block, on whichever connection's thread runs it
begin_block(r, header) ==
    /\ store_lock[r] # "commit"
    /\ IF lock_err(r, "node_store")
       THEN /\ out' = Upd(out, r, Aborted("begin_block", 0))
            /\ UNCHANGED <<store, store_lock>>
       ELSE IF header.present /\ header.has_time
       THEN /\ store' = Upd(store, r, StoreBeginBlock(store[r], header.height, header.time))
            /\ out' = Upd(out, r, Response("begin_block", 0, 0, "", "", "", NoHash, 0))
            /\ UNCHANGED store_lock
       ELSE \* todo!() with the store guard held
            /\ store_lock' = Upd(store_lock, r, "poisoned")
            /\ out' = Upd(out, r, Aborted("begin_block", 0))
            /\ UNCHANGED store

\* begin_block on the consensus connection
BeginBlock(r, header) ==
    /\ pc[r] = "idle"
    /\ ConsensusCall(r, Call("begin_block", NoTx, header))
    /\ begin_block(r, header)
    /\ pc' = Upd(pc, r, thread_after(r, out'[r]))
    /\ UNCHANGED <<queues, counters, poisoned, drained, app_hash, at_commit, staged, active, start, console>>

(***************************************************************************)
(* fn query                                                                *)
(***************************************************************************)
Query(r) ==
    /\ out' = Upd(out, r, Response("query", 0, 0, "", "", "", NoHash, 0))
    /\ UNCHANGED <<queues, counters, store, store_lock, poisoned, pc, drained, app_hash,
                   at_commit, staged, inbox, active, start, console>>

(***************************************************************************)
(* fn check_tx                                                             *)
(***************************************************************************)
CheckTxOk == [code |-> 0, log |-> ""]
CheckTxBad == [code |-> 1, log |-> "bad request"]

\* a check_tx that takes a decodable database mutation without looking at its meta
check_tx_meta_unchecked(tx) ==
    IF tx.env_ok /\ tx.sig_ok /\ tx.body_ok
       /\ (tx.ptype = "Database" \/ (tx.ptype = "Mutation" /\ tx.valid)
           \/ (tx.ptype = "QuerySession" /\ tx.qs_ok))
    THEN CheckTxOk
    ELSE CheckTxBad

check_tx(tx) ==
    IF tx.env_ok
    THEN IF tx.sig_ok
         THEN CASE tx.ptype = "Database" ->
                     IF tx.body_ok
                     THEN IF DecodePayload(tx).nonce # 0 THEN CheckTxOk ELSE CheckTxBad
                     ELSE CheckTxBad
                [] tx.ptype = "Mutation" ->
                     IF tx.body_ok
                     THEN IF DecodePayload(tx).valid THEN CheckTxOk ELSE CheckTxBad
                     ELSE CheckTxBad
                [] tx.ptype = "QuerySession" ->
                     IF tx.body_ok
                     THEN IF tx.qs_ok THEN CheckTxOk ELSE CheckTxBad
                     ELSE CheckTxBad
                [] OTHER -> CheckTxBad
         ELSE CheckTxBad
    ELSE CheckTxBad

\* a check_tx that stages the mutation it admits
CheckTxStaging(r, tx) ==
    /\ out' = Upd(out, r, Response("check_tx", tx.id, check_tx(tx).code, check_tx(tx).log,
                                   "", "", NoHash, 0))
    /\ pending_mutation' =
          Upd(pending_mutation, r,
              IF check_tx(tx).code = 0 /\ tx.ptype = "Mutation"
              THEN Append(pending_mutation[r], <<tx.account, TxIdFrom(tx), DecodePayload(tx)>>)
              ELSE pending_mutation[r])
    /\ UNCHANGED <<pending_query_session, pending_databases, counters, store, store_lock,
                   poisoned, pc, drained, app_hash, at_commit, staged, inbox, active, start, console>>

\* a check_tx that counts the mutation it admits
CheckTxCounting(r, tx) ==
    /\ out' = Upd(out, r, Response("check_tx", tx.id, check_tx(tx).code, check_tx(tx).log,
                                   "", "", NoHash, 0))
    /\ total_mutations' =
          Upd(total_mutations, r,
              IF check_tx(tx).code = 0 THEN total_mutations[r] + 1 ELSE total_mutations[r])
    /\ UNCHANGED <<queues, total_storage_bytes, total_query_sessions, store, store_lock,
                   poisoned, pc, drained, app_hash, at_commit, staged, inbox, active, start, console>>

CheckTx(r, tx) ==
    /\ out' = Upd(out, r, Response("check_tx", tx.id, check_tx(tx).code, check_tx(tx).log,
                                   "", "", NoHash, 0))
    /\ UNCHANGED <<queues, counters, store, store_lock, poisoned, pc, drained, app_hash,
                   at_commit, staged, inbox, active, start, console>>

(***************************************************************************)
(* fn deliver_tx                                                           *)
(***************************************************************************)
\* responses whose info string repeats the event type
deliver_marker_untagged(arm) ==
    CASE arm = "pending_databases" -> [info |-> "apply", event |-> "apply"]
      [] arm = "pending_mutation" -> [info |-> "deliver", event |-> "deliver"]
      [] arm = "pending_query_session" -> [info |-> "deliver", event |-> "deliver"]
      [] OTHER -> [info |-> "", event |-> "deliver"]

\* the info string and the event type of the response of each arm
deliver_marker(arm) ==
    CASE arm = "pending_databases" -> [info |-> "apply_database", event |-> "apply"]
      [] arm = "pending_mutation" -> [info |-> "deliver_mutation", event |-> "deliver"]
      [] arm = "pending_query_session" ->
            [info |-> "deliver_query_session", event |-> "deliver"]
      [] OTHER -> [info |-> "", event |-> "deliver"]

DeliverTxStaged(tx, arm) ==
    Response("deliver_tx", tx.id, 0, "", deliver_marker(arm).info, deliver_marker(arm).event,
             NoHash, 0)

DeliverTxRejected(tx) ==
    Response("deliver_tx", tx.id, 1, "", deliver_marker("rejected").info,
             deliver_marker("rejected").event, NoHash, 0)

\* the todo!() taken when a queue's lock() fails, or the unwrap() of a missing
\* node_query_session_info inside the pending_query_session guard
DeliverTxAbort(r, tx, poison) ==
    /\ poisoned' = Upd(poisoned, r, poisoned[r] \cup poison)
    /\ out' = Upd(out, r, Aborted("deliver_tx", tx.id))
    /\ UNCHANGED <<queues, staged>>

\* a push that puts the record in front
push_front(q, rec) == <<rec>> \o q

\* Vec::push
push(q, rec) == Append(q, rec)

\* a dispatch that takes the signature check for granted
deliver_arm_unverified(tx) ==
    IF tx.env_ok /\ tx.body_ok
    THEN CASE tx.ptype = "Database" -> "pending_databases"
           [] tx.ptype = "Mutation" -> "pending_mutation"
           [] tx.ptype = "QuerySession" ->
                IF tx.qs_ok THEN "pending_query_session" ELSE "rejected"
           [] OTHER -> "rejected"
    ELSE "rejected"

\* a dispatch whose mutation arm locks the database queue
deliver_arm_wrong_queue(tx) ==
    IF tx.env_ok /\ tx.sig_ok /\ tx.body_ok
    THEN CASE tx.ptype = "Database" -> "pending_databases"
           [] tx.ptype = "Mutation" -> "pending_databases"
           [] tx.ptype = "QuerySession" ->
                IF tx.qs_ok THEN "pending_query_session" ELSE "rejected"
           [] OTHER -> "rejected"
    ELSE "rejected"

\* a dispatch that takes a payload of a kind it does not know for a mutation
deliver_arm_unknown_as_mutation(tx) ==
    IF tx.env_ok /\ tx.sig_ok
    THEN CASE tx.ptype = "Database" ->
                IF tx.body_ok THEN "pending_databases" ELSE "rejected"
           [] tx.ptype = "QuerySession" ->
                IF tx.body_ok /\ tx.qs_ok THEN "pending_query_session" ELSE "rejected"
           [] tx.ptype = "Mutation" ->
                IF tx.body_ok THEN "pending_mutation" ELSE "rejected"
           [] OTHER -> "pending_mutation"
    ELSE "rejected"

\* the arm of deliver_tx a transaction reaches: the queue it is pushed on, or
\* "rejected" when it falls through to the code 1 response
deliver_arm(tx) ==
    IF tx.env_ok
    THEN IF tx.sig_ok
         THEN CASE tx.ptype = "Database" ->
                     IF tx.body_ok THEN "pending_databases" ELSE "rejected"
                [] tx.ptype = "Mutation" ->
                     IF tx.body_ok THEN "pending_mutation" ELSE "rejected"
                [] tx.ptype = "QuerySession" ->
                     IF tx.body_ok
                     THEN IF tx.qs_ok THEN "pending_query_session" ELSE "rejected"
                     ELSE "rejected"
                [] OTHER -> "rejected"
         ELSE "rejected"
    ELSE "rejected"

\* an id that numbers the records in the order they are accepted
tx_id_counted(r, tx) == <<"txid", Accepted(r)>>

\* let tx_id = TxId::from(request.tx.as_ref())
tx_id_of(r, tx) == TxIdFrom(tx)

\* the body of deliver_tx, on whichever connection's thread runs it
deliver_tx(r, tx) ==
       LET tx_id == tx_id_of(r, tx)
           addr == tx.account
           arm == deliver_arm(tx)
       IN  CASE arm = "pending_databases" ->
                  IF lock_err(r, arm)
                  THEN DeliverTxAbort(r, tx, {})
                  ELSE LET rec == <<addr, DecodePayload(tx), tx_id>>
                       IN  /\ pending_databases' =
                                 Upd(pending_databases, r, push(pending_databases[r], rec))
                           /\ out' = Upd(out, r, DeliverTxStaged(tx, arm))
                           /\ staged' = Upd(staged, r,
                                 Append(staged[r], [kind |-> "Database", rec |-> rec]))
                           /\ UNCHANGED <<pending_mutation, pending_query_session,
                                          poisoned>>
             [] arm = "pending_mutation" ->
                  IF lock_err(r, arm)
                  THEN DeliverTxAbort(r, tx, {})
                  ELSE LET rec == <<addr, tx_id, DecodePayload(tx)>>
                       IN  /\ pending_mutation' =
                                 Upd(pending_mutation, r, push(pending_mutation[r], rec))
                           /\ out' = Upd(out, r, DeliverTxStaged(tx, arm))
                           /\ staged' = Upd(staged, r,
                                 Append(staged[r], [kind |-> "Mutation", rec |-> rec]))
                           /\ UNCHANGED <<pending_databases, pending_query_session,
                                          poisoned>>
             [] arm = "pending_query_session" ->
                  IF lock_err(r, arm)
                  THEN DeliverTxAbort(r, tx, {})
                  ELSE IF ~tx.ninfo
                  THEN DeliverTxAbort(r, tx, {arm})
                  ELSE LET rec == <<tx.client, addr, tx_id, NodeQuerySessionInfo(tx)>>
                       IN  /\ pending_query_session' =
                                 Upd(pending_query_session, r,
                                     push(pending_query_session[r], rec))
                           /\ out' = Upd(out, r, DeliverTxStaged(tx, arm))
                           /\ staged' = Upd(staged, r,
                                 Append(staged[r], [kind |-> "QuerySession", rec |-> rec]))
                           /\ UNCHANGED <<pending_databases, pending_mutation,
                                          poisoned>>
             [] OTHER ->
                  /\ out' = Upd(out, r, DeliverTxRejected(tx))
                  /\ UNCHANGED <<queues, staged, poisoned>>

\* deliver_tx on the consensus connection, but for the counters, which it has no
\* statement for
DeliverTxStage(r, tx) ==
    /\ pc[r] = "idle"
    /\ Accepted(r) < MaxTx
    /\ ConsensusCall(r, Call("deliver_tx", tx, NoHeader))
    /\ deliver_tx(r, tx)
    /\ pc' = Upd(pc, r, thread_after(r, out'[r]))
    /\ UNCHANGED <<store, store_lock, drained, app_hash, at_commit, active, start, console>>

\* a deliver_tx that counts the mutation it stages
DeliverTxCounting(r, tx) ==
    /\ DeliverTxStage(r, tx)
    /\ total_mutations' =
          Upd(total_mutations, r,
              IF out'[r].code = 0 /\ deliver_arm(tx) = "pending_mutation"
              THEN total_mutations[r] + 1
              ELSE total_mutations[r])
    /\ UNCHANGED <<total_storage_bytes, total_query_sessions>>

\* a deliver_tx that pushes the settlement before it verifies the session
DeliverTxPushFirst(r, tx) ==
    IF tx.env_ok /\ tx.sig_ok /\ tx.ptype = "QuerySession" /\ tx.body_ok /\ tx.ninfo
       /\ ~tx.qs_ok
    THEN /\ pc[r] = "idle"
         /\ Accepted(r) < MaxTx
         /\ ConsensusCall(r, Call("deliver_tx", tx, NoHeader))
         /\ pending_query_session' =
               Upd(pending_query_session, r,
                   push(pending_query_session[r],
                        <<tx.client, tx.account, TxIdFrom(tx), NodeQuerySessionInfo(tx)>>))
         /\ out' = Upd(out, r, DeliverTxRejected(tx))
         /\ UNCHANGED <<pending_mutation, pending_databases, counters, store, store_lock,
                        poisoned, pc, drained, app_hash, at_commit, staged, active, start, console>>
    ELSE /\ DeliverTxStage(r, tx)
         /\ UNCHANGED counters

\* a deliver_tx that stages inside a block only: it turns down what arrives when no
\* begin_block has come since the last commit
DeliverTxInBlockOnly(r, tx) ==
    IF store[r].cur_height > store[r].last_height
    THEN /\ DeliverTxStage(r, tx)
         /\ UNCHANGED counters
    ELSE /\ pc[r] = "idle"
         /\ Accepted(r) < MaxTx
         /\ ConsensusCall(r, Call("deliver_tx", tx, NoHeader))
         /\ out' = Upd(out, r, DeliverTxRejected(tx))
         /\ UNCHANGED <<queues, counters, store, store_lock, poisoned, pc, drained,
                        app_hash, at_commit, staged, active, start, console>>

\* deliver_tx on the consensus connection
DeliverTx(r, tx) ==
    /\ DeliverTxStage(r, tx)
    /\ UNCHANGED counters

(***************************************************************************)
(* fn commit, one step per critical section and per applied record.        *)
(***************************************************************************)
\* a drain that loses the record at the head of the queue
drain_dropping(q) == [taken |-> IF q = <<>> THEN q ELSE Tail(q), left |-> <<>>]

\* a clone of the queue in place of the drain
drain_clone(q) == [taken |-> q, left |-> q]

\* q.drain(..).collect(): what is taken, and what the queue keeps
drain(q) == [taken |-> q, left |-> <<>>]

\* a commit that logs a failed apply call and goes on with the next record
CommitSkip(r, lock) ==
    CASE pc[r] = "apply_mutation" ->
             /\ drained' = Upd(drained, r, [drained[r] EXCEPT !.m = Tail(@)])
             /\ out' = Upd(out, r, NoResponse)
             /\ UNCHANGED <<pc, store_lock>>
      [] pc[r] = "apply_query_session" ->
             /\ drained' = Upd(drained, r, [drained[r] EXCEPT !.q = Tail(@)])
             /\ out' = Upd(out, r, NoResponse)
             /\ UNCHANGED <<pc, store_lock>>
      [] pc[r] = "apply_database" ->
             /\ drained' = Upd(drained, r, [drained[r] EXCEPT !.d = Tail(@)])
             /\ out' = Upd(out, r, NoResponse)
             /\ UNCHANGED <<pc, store_lock>>
      [] OTHER ->
             /\ pc' = Upd(pc, r, "panicked")
             /\ store_lock' = Upd(store_lock, r, lock)
             /\ drained' = Upd(drained, r, NoDrained)
             /\ out' = Upd(out, r, Aborted("commit", 0))

\* a todo!() on the commit path; guard is the store guard's state afterwards
CommitAbort(r, lock) ==
    /\ pc' = Upd(pc, r, "panicked")
    /\ store_lock' = Upd(store_lock, r, lock)
    /\ drained' = Upd(drained, r, NoDrained)
    /\ out' = Upd(out, r, Aborted("commit", 0))

CommitDrainMutation(r) ==
    /\ pc[r] = "idle"
    /\ ConsensusCall(r, Call("commit", NoTx, NoHeader))
    /\ IF lock_err(r, "pending_mutation")
       THEN /\ CommitAbort(r, store_lock[r])
            /\ UNCHANGED pending_mutation
       ELSE /\ drained' = Upd(drained, r,
                              [drained[r] EXCEPT !.m = drain(pending_mutation[r]).taken,
                                                 !.begun = Len(staged[r])])
            /\ pending_mutation' = Upd(pending_mutation, r, drain(pending_mutation[r]).left)
            /\ pc' = Upd(pc, r, "drain_query_session")
            /\ out' = Upd(out, r, NoResponse)
            /\ UNCHANGED store_lock
    /\ at_commit' = Upd(at_commit, r, <<total_storage_bytes[r], total_mutations[r],
                                         total_query_sessions[r]>>)
    /\ UNCHANGED <<pending_query_session, pending_databases, counters, store, poisoned,
                   app_hash, staged, active, start, console>>

CommitDrainQuerySession(r) ==
    /\ pc[r] = "drain_query_session"
    /\ IF lock_err(r, "pending_query_session")
       THEN /\ CommitAbort(r, store_lock[r])
            /\ UNCHANGED pending_query_session
       ELSE /\ drained' = Upd(drained, r,
                              [drained[r] EXCEPT !.q = drain(pending_query_session[r]).taken])
            /\ pending_query_session' =
                  Upd(pending_query_session, r, drain(pending_query_session[r]).left)
            /\ pc' = Upd(pc, r, "drain_databases")
            /\ out' = Upd(out, r, NoResponse)
            /\ UNCHANGED store_lock
    /\ UNCHANGED <<pending_mutation, pending_databases, counters, store, poisoned,
                   app_hash, at_commit, staged, inbox, active, start, console>>

CommitDrainDatabases(r) ==
    /\ pc[r] = "drain_databases"
    /\ IF lock_err(r, "pending_databases")
       THEN /\ CommitAbort(r, store_lock[r])
            /\ UNCHANGED pending_databases
       ELSE /\ drained' = Upd(drained, r,
                              [drained[r] EXCEPT !.d = drain(pending_databases[r]).taken])
            /\ pending_databases' = Upd(pending_databases, r, drain(pending_databases[r]).left)
            /\ pc' = Upd(pc, r, "lock_store")
            /\ out' = Upd(out, r, NoResponse)
            /\ UNCHANGED store_lock
    /\ UNCHANGED <<pending_mutation, pending_query_session, counters, store, poisoned,
                   app_hash, at_commit, staged, inbox, active, start, console>>

\* the database loop ahead of the settlement loop
next_phase_databases_first(phase) ==
    CASE phase = "lock_store" -> "apply_mutation"
      [] phase = "apply_mutation" -> "apply_database"
      [] phase = "apply_database" -> "apply_query_session"
      [] phase = "apply_query_session" -> "finish"

\* the order of commit's three loops and its closing step
next_phase(phase) ==
    CASE phase = "lock_store" -> "apply_mutation"
      [] phase = "apply_mutation" -> "apply_query_session"
      [] phase = "apply_query_session" -> "apply_database"
      [] phase = "apply_database" -> "finish"

\* a commit that goes into its loops without keeping the store guard
CommitLockStoreUnlocked(r) ==
    /\ pc[r] = "lock_store"
    /\ store_lock[r] # "commit"
    /\ IF lock_err(r, "node_store")
       THEN CommitAbort(r, "poisoned")
       ELSE /\ drained' = Upd(drained, r, [drained[r] EXCEPT !.m_len = Len(drained[r].m)])
            /\ pc' = Upd(pc, r, next_phase(pc[r]))
            /\ out' = Upd(out, r, NoResponse)
            /\ UNCHANGED store_lock
    /\ UNCHANGED <<queues, counters, store, poisoned, app_hash, at_commit, staged, inbox,
                   active, start, console>>

\* self.node_store.lock(), then pending_mutation.len()
CommitLockStore(r) ==
    /\ pc[r] = "lock_store"
    /\ store_lock[r] # "commit"
    /\ IF lock_err(r, "node_store")
       THEN CommitAbort(r, "poisoned")
       ELSE /\ store_lock' = Upd(store_lock, r, "commit")
            /\ drained' = Upd(drained, r, [drained[r] EXCEPT !.m_len = Len(drained[r].m)])
            /\ pc' = Upd(pc, r, next_phase(pc[r]))
            /\ out' = Upd(out, r, NoResponse)
    /\ UNCHANGED <<queues, counters, store, poisoned, app_hash, at_commit, staged, inbox,
                   active, start, console>>

\* a fetch_add that counts calls whatever the amount
fetch_add_one(v, n) == (v + 1) % CounterModulus

\* AtomicU64::fetch_add: the addition wraps around at the counter's width
fetch_add(v, n) == (v + n) % CounterModulus

\* for item in pending_mutation { s.apply_mutation(..) }, then
\* pending_query_session.len()
CommitApplyMutation(r) ==
    /\ pc[r] = "apply_mutation"
    /\ IF drained[r].m # <<>>
       THEN LET item == Head(drained[r].m)
                res == StoreApplyMutation(store[r], item[1], item[2], item[3])
            IN  IF res.ok
                THEN /\ store' = Upd(store, r, res.store)
                     /\ total_mutations' =
                           Upd(total_mutations, r, fetch_add(total_mutations[r], 1))
                     /\ total_storage_bytes' =
                           Upd(total_storage_bytes, r,
                               fetch_add(total_storage_bytes[r], res.bytes))
                     /\ drained' = Upd(drained, r, [drained[r] EXCEPT !.m = Tail(@)])
                     /\ out' = Upd(out, r, NoResponse)
                     /\ UNCHANGED <<pc, store_lock>>
                ELSE /\ CommitAbort(r, "poisoned")
                     /\ UNCHANGED <<store, total_mutations, total_storage_bytes>>
       ELSE /\ pc' = Upd(pc, r, next_phase(pc[r]))
            /\ drained' = Upd(drained, r, [drained[r] EXCEPT !.q_len = Len(drained[r].q)])
            /\ UNCHANGED <<store, total_mutations, total_storage_bytes, store_lock>>
            /\ out' = Upd(out, r, NoResponse)
    /\ UNCHANGED <<queues, total_query_sessions, poisoned, app_hash, at_commit, staged,
                   inbox, active, start, console>>

\* for item in pending_query_session { s.apply_query_session(..) }, then
\* pending_databases.len()
CommitApplyQuerySession(r) ==
    /\ pc[r] = "apply_query_session"
    /\ IF drained[r].q # <<>>
       THEN LET item == Head(drained[r].q)
                res == StoreApplyQuerySession(store[r], item[1], item[2], item[3], item[4])
            IN  IF res.ok
                THEN /\ store' = Upd(store, r, res.store)
                     /\ total_query_sessions' =
                           Upd(total_query_sessions, r, fetch_add(total_query_sessions[r], 1))
                     /\ drained' = Upd(drained, r, [drained[r] EXCEPT !.q = Tail(@)])
                     /\ out' = Upd(out, r, NoResponse)
                     /\ UNCHANGED <<pc, store_lock>>
                ELSE /\ CommitAbort(r, "poisoned")
                     /\ UNCHANGED <<store, total_query_sessions>>
       ELSE /\ pc' = Upd(pc, r, next_phase(pc[r]))
            /\ drained' = Upd(drained, r, [drained[r] EXCEPT !.d_len = Len(drained[r].d)])
            /\ UNCHANGED <<store, total_query_sessions, store_lock>>
            /\ out' = Upd(out, r, NoResponse)
    /\ UNCHANGED <<queues, total_mutations, total_storage_bytes, poisoned, app_hash,
                   at_commit, staged, inbox, active, start, console>>

\* the nonce handed to apply_database: meta.nonce, or 1 when meta is None
database_nonce(dm) == IF dm.nonce # 0 THEN dm.nonce ELSE 1

\* for item in pending_databases { s.apply_database(..) }
CommitApplyDatabase(r) ==
    /\ pc[r] = "apply_database"
    /\ IF drained[r].d # <<>>
       THEN LET item == Head(drained[r].d)
                res == StoreApplyDatabase(store[r], item[1], database_nonce(item[2]),
                                          item[3], item[2])
            IN  IF res.ok
                THEN /\ store' = Upd(store, r, res.store)
                     /\ drained' = Upd(drained, r, [drained[r] EXCEPT !.d = Tail(@)])
                     /\ out' = Upd(out, r, NoResponse)
                     /\ UNCHANGED <<pc, store_lock>>
                ELSE /\ CommitAbort(r, "poisoned")
                     /\ UNCHANGED store
       ELSE /\ pc' = Upd(pc, r, next_phase(pc[r]))
            /\ UNCHANGED <<store, drained, store_lock>>
            /\ out' = Upd(out, r, NoResponse)
    /\ UNCHANGED <<queues, counters, poisoned, app_hash, at_commit, staged, inbox, active, start, console>>

\* the staged records a commit leaves behind: those its drains did not take
RECURSIVE not_drained(_, _, _, _)
not_drained(s, m, q, d) ==
    IF s = <<>> THEN <<>>
    ELSE LET h == Head(s)
         IN  IF h.kind = "Mutation" /\ m > 0 THEN not_drained(Tail(s), m - 1, q, d)
             ELSE IF h.kind = "QuerySession" /\ q > 0 THEN not_drained(Tail(s), m, q - 1, d)
             ELSE IF h.kind = "Database" /\ d > 0 THEN not_drained(Tail(s), m, q, d - 1)
             ELSE <<h>> \o not_drained(Tail(s), m, q, d)

\* a commit that asks the store to commit only when it applied a mutation
needs_store_commit_mutations_only(d) == d.m_len > 0

\* a commit that always asks the store to commit
needs_store_commit_always(d) == TRUE

\* whether commit asks the store to commit
needs_store_commit(d) == d.m_len > 0 \/ d.q_len > 0 \/ d.d_len > 0

\* s.commit() or s.root_hash(), the response, and the store guard's release: the
\* closing step of commit, but for the queues, which it has no statement for
CommitFinishStore(r, commit_ok) ==
    /\ pc[r] = "finish"
    \* the store's outcome matters only when the store is asked to commit
    /\ needs_store_commit(drained[r]) \/ commit_ok
    /\ IF needs_store_commit(drained[r])
       THEN LET res == StoreCommit(store[r], commit_ok)
            IN  IF res.ok
                THEN /\ store' = Upd(store, r, res.store)
                     /\ out' = Upd(out, r, Response("commit", 0, 0, "", "", "", res.hash, 0))
                     /\ app_hash' = Upd(app_hash, r, res.hash)
                     /\ pc' = Upd(pc, r, "idle")
                     /\ store_lock' = Upd(store_lock, r, "free")
                     /\ drained' = Upd(drained, r, NoDrained)
                     /\ staged' = Upd(staged, r,
                           not_drained(staged[r], drained[r].m_len, drained[r].q_len,
                                       drained[r].d_len))
                ELSE /\ CommitAbort(r, "poisoned")
                     /\ UNCHANGED <<store, app_hash, staged>>
       ELSE /\ out' = Upd(out, r, Response("commit", 0, 0, "", "", "",
                                            StoreRootHash(store[r]), 0))
            /\ app_hash' = Upd(app_hash, r, StoreRootHash(store[r]))
            /\ pc' = Upd(pc, r, "idle")
            /\ store_lock' = Upd(store_lock, r, "free")
            /\ drained' = Upd(drained, r, NoDrained)
            /\ staged' = Upd(staged, r,
                  not_drained(staged[r], drained[r].m_len, drained[r].q_len,
                              drained[r].d_len))
            /\ UNCHANGED store
    /\ UNCHANGED <<counters, poisoned, at_commit, inbox, active, start, console>>

\* a commit that returns without giving up the store guard
CommitFinishKeepingGuard(r, commit_ok) ==
    /\ pc[r] = "finish"
    /\ commit_ok
    /\ LET res == IF needs_store_commit(drained[r])
                  THEN StoreCommit(store[r], TRUE)
                  ELSE [ok |-> TRUE, hash |-> StoreRootHash(store[r]), store |-> store[r]]
       IN  /\ store' = Upd(store, r, res.store)
           /\ out' = Upd(out, r, Response("commit", 0, 0, "", "", "", res.hash, 0))
           /\ app_hash' = Upd(app_hash, r, res.hash)
    /\ pc' = Upd(pc, r, "idle")
    /\ drained' = Upd(drained, r, NoDrained)
    /\ staged' = Upd(staged, r,
          not_drained(staged[r], drained[r].m_len, drained[r].q_len, drained[r].d_len))
    /\ UNCHANGED <<queues, counters, store_lock, poisoned, at_commit, inbox, active, start, console>>

\* a commit that empties the queues again when it ends
CommitFinishClearing(r, commit_ok) ==
    /\ CommitFinishStore(r, commit_ok)
    /\ pending_mutation' = Upd(pending_mutation, r, <<>>)
    /\ pending_query_session' = Upd(pending_query_session, r, <<>>)
    /\ pending_databases' = Upd(pending_databases, r, <<>>)

\* the closing step of commit: no queue is touched after the drains
CommitFinish(r, commit_ok) ==
    /\ CommitFinishStore(r, commit_ok)
    /\ UNCHANGED queues

(***************************************************************************)
(* The specifications.  The consensus connection issues begin_block,       *)
(* deliver_tx and commit one after the other; check_tx, info and query     *)
(* arrive on their own connections at any time.                            *)
(***************************************************************************)
Next ==
    \E r \in active :
        \/ Info(r)
        \/ Query(r)
        \/ \E header \in Headers : BeginBlock(r, header)
        \/ \E tx \in RawTxs : CheckTx(r, tx)
        \/ \E tx \in RawTxs : DeliverTx(r, tx)
        \/ CommitDrainMutation(r)
        \/ CommitDrainQuerySession(r)
        \/ CommitDrainDatabases(r)
        \/ CommitLockStore(r)
        \/ CommitApplyMutation(r)
        \/ CommitApplyQuerySession(r)
        \/ CommitApplyDatabase(r)
        \/ \E commit_ok \in BOOLEAN : CommitFinish(r, commit_ok)

Spec == Init /\ [][Next]_vars

(***************************************************************************)
(* Two replicas behind one consensus engine: each runs the handlers on its *)
(* own state, takes the consensus-ordered calls in order, and receives     *)
(* check_tx calls of its own.                                              *)
(***************************************************************************)
ReplicaTxs == {tx \in RawTxs : tx.id \in {2, 6, 9, 12}}
ReplicaCheckTxs == {tx \in RawTxs : tx.id \in {9}}
ReplicaHeaders == {h \in Headers : h.present /\ h.has_time}

NextReplicas ==
    \E r \in active :
        \/ \E header \in ReplicaHeaders : BeginBlock(r, header)
        \/ \E tx \in ReplicaCheckTxs : CheckTx(r, tx)
        \/ \E tx \in ReplicaTxs : DeliverTx(r, tx)
        \/ CommitDrainMutation(r)
        \/ CommitDrainQuerySession(r)
        \/ CommitDrainDatabases(r)
        \/ CommitLockStore(r)
        \/ CommitApplyMutation(r)
        \/ CommitApplyQuerySession(r)
        \/ CommitApplyDatabase(r)
        \/ CommitFinish(r, TRUE)

SpecReplicas == InitReplicas /\ [][NextReplicas]_vars

(***************************************************************************)
(* One node whose inputs and whose store go wrong: headers without a time, *)
(* a settlement without node session info, records the store fails to     *)
(* apply, and a store commit that fails.                                   *)
(***************************************************************************)
FaultTxs == FaultyTxs \cup {tx \in RawTxs : tx.id \in {1, 3, 6, 9, 12}}

NextFaults ==
    \E r \in active :
        \/ Info(r)
        \/ \E header \in Headers : BeginBlock(r, header)
        \/ \E tx \in FaultTxs : DeliverTx(r, tx)
        \/ CommitDrainMutation(r)
        \/ CommitDrainQuerySession(r)
        \/ CommitDrainDatabases(r)
        \/ CommitLockStore(r)
        \/ CommitApplyMutation(r)
        \/ CommitApplyQuerySession(r)
        \/ CommitApplyDatabase(r)
        \/ \E commit_ok \in BOOLEAN : CommitFinish(r, commit_ok)

SpecFaults == Init /\ [][NextFaults]_vars

(***************************************************************************)
(* The same node with its mempool connection, which sends check_tx at any  *)
(* time, whatever has become of the consensus connection's thread.         *)
(***************************************************************************)
MempoolTxs == {tx \in RawTxs : tx.id \in {3, 9}}

NextMempool ==
    \/ NextFaults
    \/ \E r \in active : \E tx \in MempoolTxs : CheckTx(r, tx)

SpecMempool == Init /\ [][NextMempool]_vars

(***************************************************************************)
(* One node served over several connections.  The server runs each         *)
(* connection on a thread of its own over a clone of the handler, so a     *)
(* begin_block or a deliver_tx that arrives on a second connection runs    *)
(* between the steps of the consensus connection's thread, and an abort on *)
(* the second connection ends that connection's thread only.               *)
(***************************************************************************)
\* deliver_tx on a second connection
DeliverTxConcurrent(r, tx) ==
    /\ Accepted(r) < MaxTx
    /\ deliver_tx(r, tx)
    /\ UNCHANGED <<counters, store, store_lock, pc, drained, app_hash, at_commit, inbox,
                   active, start, console>>

\* begin_block on a second connection
BeginBlockConcurrent(r, header) ==
    /\ begin_block(r, header)
    /\ UNCHANGED <<queues, counters, poisoned, pc, drained, app_hash, at_commit, staged,
                   inbox, active, start, console>>

ConsensusTxs == {tx \in RawTxs : tx.id \in {6, 9}}
ConcurrentTxs == ConsensusTxs \cup {tx \in FaultyTxs : tx.id = 14}
ConsensusHeaders == {h \in Headers : h.present /\ h.has_time}
ConcurrentHeaders == {NoHeader}

NextConcurrent ==
    \E r \in active :
        \/ Info(r)
        \/ \E header \in ConsensusHeaders : BeginBlock(r, header)
        \/ \E header \in ConcurrentHeaders : BeginBlockConcurrent(r, header)
        \/ \E tx \in ConsensusTxs : DeliverTx(r, tx)
        \/ \E tx \in ConcurrentTxs : DeliverTxConcurrent(r, tx)
        \/ CommitDrainMutation(r)
        \/ CommitDrainQuerySession(r)
        \/ CommitDrainDatabases(r)
        \/ CommitLockStore(r)
        \/ CommitApplyMutation(r)
        \/ CommitApplyQuerySession(r)
        \/ CommitApplyDatabase(r)
        \/ CommitFinish(r, TRUE)

SpecConcurrent == Init /\ [][NextConcurrent]_vars

(***************************************************************************)
(* One node that is handed mutations large enough, for the width of its    *)
(* counters, to take total_storage_bytes to the end of its range.          *)
(***************************************************************************)
NextWrap ==
    \E r \in active :
        \/ Info(r)
        \/ \E header \in ConsensusHeaders : BeginBlock(r, header)
        \/ \E tx \in LargeTxs : DeliverTx(r, tx)
        \/ CommitDrainMutation(r)
        \/ CommitDrainQuerySession(r)
        \/ CommitDrainDatabases(r)
        \/ CommitLockStore(r)
        \/ CommitApplyMutation(r)
        \/ CommitApplyQuerySession(r)
        \/ CommitApplyDatabase(r)
        \/ CommitFinish(r, TRUE)

SpecWrap == Init /\ [][NextWrap]_vars

(***************************************************************************)
(* One node served over several connections, with nothing going wrong:     *)
(* every header has its time and the store applies every record.  A thread *)
(* that can take a step gets to take it: once commit has begun, its thread *)
(* is scheduled until commit returns.                                      *)
(***************************************************************************)
\* the steps of a commit that has begun
CommitProgress(r) ==
    \/ CommitDrainQuerySession(r)
    \/ CommitDrainDatabases(r)
    \/ CommitLockStore(r)
    \/ CommitApplyMutation(r)
    \/ CommitApplyQuerySession(r)
    \/ CommitApplyDatabase(r)
    \/ CommitFinish(r, TRUE)

NextLive ==
    \E r \in active :
        \/ Info(r)
        \/ \E header \in ConsensusHeaders : BeginBlock(r, header)
        \/ \E header \in ConsensusHeaders : BeginBlockConcurrent(r, header)
        \/ \E tx \in MempoolTxs : CheckTx(r, tx)
        \/ \E tx \in ConsensusTxs : DeliverTx(r, tx)
        \/ \E tx \in ConsensusTxs : DeliverTxConcurrent(r, tx)
        \/ CommitDrainMutation(r)
        \/ CommitProgress(r)

SpecLive == Init /\ [][NextLive]_vars /\ WF_vars(CommitProgress(1))

(***************************************************************************)
(* The start command (DB3Command::execute, Start arm): open the database,  *)
(* init the store, then start the ABCI, JSON-RPC and gRPC services in that *)
(* order.  The ABCI handlers run once their service is up.                 *)
(***************************************************************************)
NotStarted == [at |-> "open", init |-> "pending", services |-> {}]

InitStart ==
    /\ InitNode
    /\ active = {}
    /\ start = [r \in Replicas |-> NotStarted]
    /\ console = NoCommand

handler_state == <<pending_mutation, pending_query_session, pending_databases,
                   total_storage_bytes, total_mutations, total_query_sessions,
                   store, store_lock, poisoned, pc, drained, out, app_hash, staged,
                   at_commit, inbox>>

\* a panic of the start command's thread ends the process and its services with it
StartPanic(r) ==
    /\ start' = Upd(start, r, [start[r] EXCEPT !.at = "panicked", !.services = {}])
    /\ active' = active \ {r}

\* Merk::open_opt(..).unwrap() and the construction of node_store
StartOpenStore(r, open_ok) ==
    /\ start[r].at = "open"
    /\ IF open_ok
       THEN /\ start' = Upd(start, r, [start[r] EXCEPT !.at = "init"])
            /\ UNCHANGED active
       ELSE StartPanic(r)
    /\ UNCHANGED <<handler_state, console>>

\* a start command that goes on to the services whatever init returned
StartInitStoreUnchecked(r, init_ok) ==
    /\ start[r].at = "init"
    /\ start' = Upd(start, r, [start[r] EXCEPT !.at = "abci",
                                                !.init = IF init_ok THEN "ok" ELSE "failed"])
    /\ UNCHANGED <<handler_state, active, console>>

\* node_store.lock(), then store.get_auth_store().init()
StartInitStore(r, init_ok) ==
    /\ start[r].at = "init"
    /\ IF lock_err(r, "node_store")
       THEN StartPanic(r)
       ELSE /\ start' = Upd(start, r,
                  IF init_ok
                  THEN [start[r] EXCEPT !.at = "abci", !.init = "ok"]
                  ELSE [start[r] EXCEPT !.at = "returned", !.init = "failed"])
            /\ UNCHANGED active
    /\ UNCHANGED <<handler_state, console>>

\* start_abci_service: the server thread binds and listens, or warns and ends
StartAbciService(r, bind_ok) ==
    /\ start[r].at = "abci"
    /\ start' = Upd(start, r,
          [start[r] EXCEPT !.at = "json_rpc",
                           !.services = IF bind_ok THEN @ \cup {"abci"} ELSE @])
    /\ active' = IF bind_ok THEN active \cup {r} ELSE active
    /\ UNCHANGED <<handler_state, console>>

\* start_json_rpc_service: the server thread binds and runs, or panics by itself
StartJsonRpcService(r, bind_ok) ==
    /\ start[r].at = "json_rpc"
    /\ start' = Upd(start, r,
          [start[r] EXCEPT !.at = "grpc",
                           !.services = IF bind_ok THEN @ \cup {"json_rpc"} ELSE @])
    /\ UNCHANGED <<handler_state, active, console>>

\* start_grpc_service: serve(..).await on the start command's own thread
StartGrpcService(r, serve_ok) ==
    /\ start[r].at = "grpc"
    /\ IF serve_ok
       THEN /\ start' = Upd(start, r, [start[r] EXCEPT !.at = "serving",
                                                        !.services = @ \cup {"grpc"}])
            /\ UNCHANGED active
       ELSE StartPanic(r)
    /\ UNCHANGED <<handler_state, console>>

StartReplicas == {1}

NextStart ==
    \/ \E r \in StartReplicas :
          \/ \E open_ok \in BOOLEAN : StartOpenStore(r, open_ok)
          \/ \E init_ok \in BOOLEAN : StartInitStore(r, init_ok)
          \/ \E bind_ok \in BOOLEAN : StartAbciService(r, bind_ok)
          \/ \E bind_ok \in BOOLEAN : StartJsonRpcService(r, bind_ok)
          \/ \E serve_ok \in BOOLEAN : StartGrpcService(r, serve_ok)
    \/ \E r \in active :
          \/ Info(r)
          \/ \E header \in ConsensusHeaders : BeginBlock(r, header)
          \/ \E tx \in MempoolTxs : CheckTx(r, tx)
          \/ \E tx \in ConsensusTxs : DeliverTx(r, tx)
          \/ CommitDrainMutation(r)
          \/ CommitDrainQuerySession(r)
          \/ CommitDrainDatabases(r)
          \/ CommitLockStore(r)
          \/ CommitApplyMutation(r)
          \/ CommitApplyQuerySession(r)
          \/ CommitApplyDatabase(r)
          \/ CommitFinish(r, TRUE)

SpecStart == InitStart /\ [][NextStart]_vars

(***************************************************************************)
(* Vocabulary of the properties.                                           *)
(***************************************************************************)
IsPrefix(a, b) == Len(a) <= Len(b) /\ SubSeq(b, 1, Len(a)) = a

TxById ==
    [id \in {tx.id : tx \in RawTxs \cup FaultyTxs \cup LargeTxs} |->
        CHOOSE tx \in RawTxs \cup FaultyTxs \cup LargeTxs : tx.id = id]

TxOf(id) == TxById[id]

\* the store calls of the commit in progress: the log after the last store commit
AppliedNow(r) == SubSeq(store[r].log, LastCommit(store[r].log) + 1, Len(store[r].log))

\* the pending record an apply call was made for
RecordOf(e) ==
    CASE e.op = "apply_mutation" -> <<e.addr, e.tx_id, e.payload>>
      [] e.op = "apply_query_session" -> <<e.client, e.addr, e.tx_id, e.payload>>
      [] e.op = "apply_database" -> <<e.addr, e.payload, e.tx_id>>

KindOfCall(e) ==
    CASE e.op = "apply_mutation" -> "Mutation"
      [] e.op = "apply_query_session" -> "QuerySession"
      [] e.op = "apply_database" -> "Database"
      [] OTHER -> "none"

RECURSIVE MapRecordOf(_)
MapRecordOf(log) ==
    IF log = <<>> THEN <<>> ELSE <<RecordOf(Head(log))>> \o MapRecordOf(Tail(log))

RECURSIVE MapRec(_)
MapRec(st) == IF st = <<>> THEN <<>> ELSE <<Head(st).rec>> \o MapRec(Tail(st))

\* records of a kind applied by the commit in progress, in the order applied
AppliedRecs(r, kind) ==
    MapRecordOf(SelectSeq(AppliedNow(r), LAMBDA e : KindOfCall(e) = kind))

\* records of a kind staged in this block, in the order delivered
StagedRecs(r, kind) == MapRec(SelectSeq(staged[r], LAMBDA e : e.kind = kind))

Kinds == {"Mutation", "QuerySession", "Database"}

QueuesEmpty(r) ==
    /\ pending_mutation[r] = <<>>
    /\ pending_query_session[r] = <<>>
    /\ pending_databases[r] = <<>>

(***************************************************************************)
(* C1  Determinism.  Two replicas fed the same consensus-ordered calls,    *)
(* with check_tx calls of their own in between, make the same store apply  *)
(* calls in the same order: at every moment one replica's store log is a   *)
(* prefix of the other's, and whenever both have finished the same calls   *)
(* their store logs, stores and latest commit hashes are equal.            *)
(***************************************************************************)
InStep(r1, r2) ==
    /\ inbox[r1] = <<>> /\ inbox[r2] = <<>>
    /\ pc[r1] \in {"idle", "panicked"} /\ pc[r2] \in {"idle", "panicked"}

C1_Determinism ==
    \A r1, r2 \in active :
        /\ IsPrefix(store[r1].log, store[r2].log) \/ IsPrefix(store[r2].log, store[r1].log)
        /\ InStep(r1, r2) =>
              /\ store[r1] = store[r2]
              /\ app_hash[r1] = app_hash[r2]
              /\ pc[r1] = pc[r2]

\* both replicas have committed the same two records, one of them having answered
\* a check_tx since, the other not
C1_Witness ==
    /\ active = Replicas
    /\ InStep(1, 2)
    /\ Len(store[1].log) >= 3
    /\ app_hash[1] # NoHash
    /\ out[1].op = "check_tx"
    /\ out[2].op = "commit"

(***************************************************************************)
(* C2  Admission purity.  A check_tx step, wherever it falls (also between *)
(* the steps of a commit), leaves the three queues, the three counters and *)
(* the store as they were.                                                 *)
(***************************************************************************)
C2_AdmissionPurity ==
    [][out'[1].op = "check_tx" => UNCHANGED <<queues, counters, store>>]_vars

\* a check_tx answered while commit is inside its mutation loop
C2_Witness ==
    /\ out[1].op = "check_tx"
    /\ out[1].code = 0
    /\ pc[1] = "apply_mutation"
    /\ drained[1].m # <<>>
    /\ pending_mutation[1] = <<>>

(***************************************************************************)
(* C3  check_tx always answers, with code 0 exactly when the envelope      *)
(* decodes, the signature verifies, the payload type is known, the payload *)
(* decodes and the validator of its kind accepts it; otherwise with code 1 *)
(* and log "bad request".                                                  *)
(***************************************************************************)
Admissible(tx) ==
    /\ tx.env_ok
    /\ tx.sig_ok
    /\ tx.ptype \in Kinds
    /\ tx.body_ok
    /\ tx.ptype = "Database" => tx.nonce # 0
    /\ tx.ptype = "Mutation" => tx.valid
    /\ tx.ptype = "QuerySession" => tx.qs_ok

C3_CheckTxCode ==
    out[1].op = "check_tx" =>
        /\ out[1].code \in {0, 1}
        /\ out[1].code = 0 <=> Admissible(TxOf(out[1].tx))
        /\ out[1].code = 0 => out[1].log = ""
        /\ out[1].code = 1 => out[1].log = "bad request"

\* check_tx has turned down a database mutation without metadata
C3_Witness ==
    /\ out[1].op = "check_tx"
    /\ out[1].code = 1
    /\ TxOf(out[1].tx).ptype = "Database"
    /\ TxOf(out[1].tx).body_ok
    /\ TxOf(out[1].tx).nonce = 0

(***************************************************************************)
(* C4  Invariant I1.  Every record in a staging queue comes from an        *)
(* envelope that passed signature recovery and the validator of its kind:  *)
(* is_valid for a mutation, metadata present for a database mutation.      *)
(***************************************************************************)
C4_StagedRecordsValidated ==
    /\ \A i \in 1..Len(pending_mutation[1]) : pending_mutation[1][i][3].valid
    /\ \A i \in 1..Len(pending_databases[1]) : pending_databases[1][i][2].nonce # 0

(***************************************************************************)
(* C5  A deliver_tx answered with code 0 has appended exactly one record,  *)
(* built from that transaction, to the end of the queue of its payload     *)
(* kind, and has left the other two queues, the counters and the store     *)
(* alone.                                                                  *)
(***************************************************************************)
Appended(q, q2, rec) == q2 = Append(q, rec)

C5_DeliverTxStagesOne ==
    [][(out'[1].op = "deliver_tx" /\ out'[1].code = 0) =>
          LET tx == TxOf(out'[1].tx)
          IN  /\ UNCHANGED <<counters, store>>
              /\ tx.ptype \in Kinds
              /\ tx.ptype = "Mutation" =>
                    /\ Appended(pending_mutation[1], pending_mutation'[1],
                                <<tx.account, TxIdFrom(tx), DecodePayload(tx)>>)
                    /\ UNCHANGED <<pending_databases, pending_query_session>>
              /\ tx.ptype = "Database" =>
                    /\ Appended(pending_databases[1], pending_databases'[1],
                                <<tx.account, DecodePayload(tx), TxIdFrom(tx)>>)
                    /\ UNCHANGED <<pending_mutation, pending_query_session>>
              /\ tx.ptype = "QuerySession" =>
                    /\ Appended(pending_query_session[1], pending_query_session'[1],
                                <<tx.client, tx.account, TxIdFrom(tx),
                                  NodeQuerySessionInfo(tx)>>)
                    /\ UNCHANGED <<pending_mutation, pending_databases>>
    ]_vars

\* a settlement has just been staged behind a mutation staged earlier in the block
C5_Witness ==
    /\ out[1].op = "deliver_tx"
    /\ out[1].code = 0
    /\ TxOf(out[1].tx).ptype = "QuerySession"
    /\ Len(pending_query_session[1]) = 1
    /\ Len(pending_mutation[1]) = 1
    /\ pending_databases[1] = <<>>

(***************************************************************************)
(* C6  A deliver_tx whose envelope does not decode, or whose signature     *)
(* does not verify, is answered with code 1 and leaves the three queues    *)
(* unchanged; so what check_tx turns down for its signature, deliver_tx    *)
(* turns down too.                                                         *)
(***************************************************************************)
C6_DeliverTxRejectsUnverified ==
    [][(out'[1].op = "deliver_tx"
        /\ ~(TxOf(out'[1].tx).env_ok /\ TxOf(out'[1].tx).sig_ok)) =>
          /\ out'[1].code = 1
          /\ check_tx(TxOf(out'[1].tx)).code = 1
          /\ UNCHANGED queues
    ]_vars

\* a well-formed mutation with a bad signature has been turned down while another
\* record waits in its queue
C6_Witness ==
    /\ out[1].op = "deliver_tx"
    /\ out[1].code = 1
    /\ TxOf(out[1].tx).env_ok
    /\ ~TxOf(out[1].tx).sig_ok
    /\ TxOf(out[1].tx).ptype = "Mutation"
    /\ Len(pending_mutation[1]) = 1

(***************************************************************************)
(* C7  FIFO.  Within one kind, commit applies the records of a block in    *)
(* the order deliver_tx staged them: what has been applied so far is a     *)
(* prefix of what was delivered, and once the three loops are done it is   *)
(* all of it.                                                              *)
(***************************************************************************)
C7_FifoWithinKind ==
    \A kind \in Kinds :
        /\ IsPrefix(AppliedRecs(1, kind), StagedRecs(1, kind))
        /\ pc[1] = "finish" => AppliedRecs(1, kind) = StagedRecs(1, kind)

\* two different mutations of one block have both been applied
C7_Witness ==
    /\ pc[1] = "finish"
    /\ Len(AppliedRecs(1, "Mutation")) = 2
    /\ AppliedRecs(1, "Mutation")[1] # AppliedRecs(1, "Mutation")[2]

(***************************************************************************)
(* C8  Within one commit every mutation is applied before any settlement,  *)
(* and every settlement before any database mutation, whatever the order   *)
(* of delivery.                                                            *)
(***************************************************************************)
Rank(e) ==
    CASE e.op = "apply_mutation" -> 1
      [] e.op = "apply_query_session" -> 2
      [] e.op = "apply_database" -> 3

C8_CrossKindOrder ==
    \A i, j \in 1..Len(AppliedNow(1)) :
        i < j => Rank(AppliedNow(1)[i]) <= Rank(AppliedNow(1)[j])

\* a database mutation delivered before a mutation has been applied after it
C8_Witness ==
    /\ pc[1] = "finish"
    /\ Len(staged[1]) = 2
    /\ staged[1][1].kind = "Database"
    /\ staged[1][2].kind = "Mutation"
    /\ Len(AppliedNow(1)) = 2
    /\ AppliedNow(1)[1].op = "apply_mutation"
    /\ AppliedNow(1)[2].op = "apply_database"

(***************************************************************************)
(* C9  Invariant I2.  Commit drains each queue once and in full: after its *)
(* drain a queue is empty and the drained vector holds every record of     *)
(* that kind staged in the block; when commit returns all three queues are *)
(* empty.                                                                  *)
(***************************************************************************)
AfterDrain(r, queue) ==
    CASE queue = "pending_mutation" -> pc[r] \notin {"idle", "panicked"}
      [] queue = "pending_query_session" ->
            pc[r] \notin {"idle", "panicked", "drain_query_session"}
      [] queue = "pending_databases" ->
            pc[r] \notin {"idle", "panicked", "drain_query_session", "drain_databases"}

C9_DrainedInFull ==
    /\ AfterDrain(1, "pending_mutation") => pending_mutation[1] = <<>>
    /\ AfterDrain(1, "pending_query_session") => pending_query_session[1] = <<>>
    /\ AfterDrain(1, "pending_databases") => pending_databases[1] = <<>>
    /\ pc[1] = "lock_store" =>
          /\ drained[1].m = StagedRecs(1, "Mutation")
          /\ drained[1].q = StagedRecs(1, "QuerySession")
          /\ drained[1].d = StagedRecs(1, "Database")
    /\ (out[1].op = "commit" /\ out[1].code = 0) => QueuesEmpty(1)

\* a commit that drained two queues has returned
C9_Witness ==
    /\ out[1].op = "commit"
    /\ out[1].code = 0
    /\ pc[1] = "idle"
    /\ Len(store[1].log) = 3
    /\ store[1].log[1].op = "apply_mutation"
    /\ store[1].log[2].op = "apply_database"

(***************************************************************************)
(* C10  Empty-block idempotence.  While nothing has been staged since the  *)
(* last commit, a commit makes no apply call and no store commit and       *)
(* changes no counter; it returns the store's root hash, which is the hash *)
(* the previous commit returned.                                           *)
(***************************************************************************)
C10_EmptyBlockCommit ==
    [][(staged[1] = <<>> /\ out'[1].op \notin {"begin_block", "deliver_tx"}) =>
          /\ UNCHANGED <<counters, store>>
          /\ out'[1].op = "commit" =>
                /\ out'[1].code = 0
                /\ out'[1].hash = StoreRootHash(store[1])
                /\ app_hash[1] # NoHash => out'[1].hash = app_hash[1]
    ]_vars

\* an empty block, begun after a block that committed a record, has been committed
C10_Witness ==
    /\ out[1].op = "commit"
    /\ out[1].code = 0
    /\ store[1].log # <<>>
    /\ store[1].cur_height # store[1].last_height
    /\ out[1].hash = Digest(store[1].log)

(***************************************************************************)
(* C11  A commit that returns after draining at least one record has       *)
(* applied every record of the block, then asked the store to commit       *)
(* exactly once, and returns the hash that store commit produced; the      *)
(* store is asked to commit at no other moment.                            *)
(***************************************************************************)
CommitCalls(log) == Len(SelectSeq(log, LAMBDA e : e.op = "commit"))

CommitReturns(o) == o.op = "commit" /\ o.code = 0

C11_NonEmptyCommit ==
    [][/\ (CommitReturns(out'[1]) /\ staged[1] # <<>>) =>
             /\ \A kind \in Kinds : AppliedRecs(1, kind) = StagedRecs(1, kind)
             /\ store'[1].log = Append(store[1].log, CommitCall)
             /\ out'[1].hash = StoreCommit(store[1], TRUE).hash
             /\ out'[1].hash = StoreRootHash(store'[1])
       /\ CommitCalls(store'[1].log) # CommitCalls(store[1].log) =>
             (CommitReturns(out'[1]) /\ staged[1] # <<>>)
    ]_vars

\* a block holding nothing but one database mutation has been committed
C11_Witness ==
    /\ CommitReturns(out[1])
    /\ Len(store[1].log) = 2
    /\ store[1].log[1].op = "apply_database"
    /\ store[1].log[2].op = "commit"
    /\ out[1].hash = store[1].last_hash

(***************************************************************************)
(* C12  Counter accounting.  At every moment total_mutations is the number *)
(* of mutations the store has applied, total_query_sessions the number of  *)
(* settlements it has applied, and total_storage_bytes the sum of the      *)
(* bytes it reported written for the applied mutations; applied database   *)
(* mutations count nowhere.                                                *)
(***************************************************************************)
CountOp(log, op) == Len(SelectSeq(log, LAMBDA e : e.op = op))

RECURSIVE SumBytes(_)
SumBytes(log) ==
    IF log = <<>> THEN 0
    ELSE (IF Head(log).op = "apply_mutation" THEN Head(log).payload.bytes ELSE 0)
         + SumBytes(Tail(log))

C12_CounterAccounting ==
    /\ total_mutations[1] = CountOp(store[1].log, "apply_mutation")
    /\ total_query_sessions[1] = CountOp(store[1].log, "apply_query_session")
    /\ total_storage_bytes[1] = SumBytes(store[1].log)

\* a block with a two-byte mutation and a database mutation has been committed
C12_Witness ==
    /\ CommitReturns(out[1])
    /\ CountOp(store[1].log, "apply_database") = 1
    /\ total_mutations[1] = 1
    /\ total_storage_bytes[1] = 2
    /\ total_query_sessions[1] = 0

(***************************************************************************)
(* C13  Only commit changes the counters: a step of info, begin_block,     *)
(* query or deliver_tx, whatever it answers, leaves total_storage_bytes,   *)
(* total_mutations and total_query_sessions as they were, so a staged      *)
(* record is counted nowhere before its block is committed.                *)
(***************************************************************************)
C13_OnlyCommitCounts ==
    [][/\ out'[1].op \in {"info", "begin_block", "query", "deliver_tx"} =>
             UNCHANGED counters
       /\ counters' # counters =>
             pc[1] \in {"apply_mutation", "apply_query_session"}
    ]_vars

\* a mutation has been staged on a node that has counted an earlier one
C13_Witness ==
    /\ out[1].op = "deliver_tx"
    /\ out[1].code = 0
    /\ Len(pending_mutation[1]) = 1
    /\ total_mutations[1] = 1
    /\ CountOp(store[1].log, "apply_mutation") = 1

(***************************************************************************)
(* C14  The counters are updated only by successful commits: when a commit *)
(* aborts, because an apply call or the store's commit failed, the three   *)
(* counters hold the values they had when that commit began.               *)
(***************************************************************************)
CommitAborts(o) == o.op = "commit" /\ o.code = -1

C14_CountersOnlyBySuccessfulCommit ==
    [][CommitAborts(out'[1]) =>
          <<total_storage_bytes'[1], total_mutations'[1], total_query_sessions'[1]>>
             = at_commit'[1]
    ]_vars

(***************************************************************************)
(* C15  Fatal apply failure.  When the store fails an apply call or its    *)
(* commit, commit aborts there: it returns no hash, applies none of the    *)
(* remaining records and takes no further step.  A commit that returns a   *)
(* hash has applied every record it drained.                               *)
(***************************************************************************)
\* the record commit is about to hand to the store is one the store fails
NextApplyFails(r) ==
    \/ pc[r] = "apply_mutation" /\ drained[r].m # <<>>
          /\ ~Head(drained[r].m)[3].store_ok
    \/ pc[r] = "apply_query_session" /\ drained[r].q # <<>>
          /\ ~Head(drained[r].q)[4].store_ok
    \/ pc[r] = "apply_database" /\ drained[r].d # <<>>
          /\ ~Head(drained[r].d)[2].store_ok

C15_FatalApplyFailure ==
    [][/\ NextApplyFails(1) =>
             /\ CommitAborts(out'[1])
             /\ pc'[1] = "panicked"
             /\ UNCHANGED <<store, counters>>
       /\ (pc[1] = "finish" /\ staged[1] # <<>>) =>
             \/ CommitReturns(out'[1]) /\ store'[1].log = Append(store[1].log, CommitCall)
             \/ CommitAborts(out'[1]) /\ pc'[1] = "panicked" /\ UNCHANGED store
       /\ pc[1] = "panicked" =>
             /\ pc'[1] = "panicked"
             /\ UNCHANGED <<store, counters, queues, app_hash>>
       /\ CommitReturns(out'[1]) =>
             \A kind \in Kinds : AppliedRecs(1, kind) = StagedRecs(1, kind)
    ]_vars

\* commit has aborted on a database mutation the store failed, after applying the
\* settlement staged in the same block
C15_Witness ==
    /\ CommitAborts(out[1])
    /\ pc[1] = "panicked"
    /\ store_lock[1] = "poisoned"
    /\ Len(staged[1]) = 2
    /\ Len(AppliedNow(1)) = 1
    /\ AppliedNow(1)[1].op = "apply_query_session"
    /\ StagedRecs(1, "Database") # <<>>

(***************************************************************************)
(* C16  Rejection isolation.  A deliver_tx answered with code 1 changes    *)
(* nothing the node keeps: queues, counters, store and the commit thread   *)
(* are as if the call had not been made.  So a block of rejected           *)
(* transactions only is committed as an empty block (no apply call, no     *)
(* store commit, the root hash as before), and in a mixed block no queued  *)
(* record and no apply call comes from a transaction that fails to decode  *)
(* or to verify.                                                           *)
(***************************************************************************)
\* the envelope, the signature, the payload and (for a settlement) the session
\* all decode and verify
Verifies(tx) ==
    /\ tx.env_ok
    /\ tx.sig_ok
    /\ tx.ptype \in Kinds
    /\ tx.body_ok
    /\ tx.ptype = "QuerySession" => tx.qs_ok

VerifiedIds == {tx.id : tx \in {t \in RawTxs \cup FaultyTxs \cup LargeTxs : Verifies(t)}}

FromVerified(tx_id) == tx_id[2] \in VerifiedIds

C16_RejectionIsolation ==
    [][/\ (out'[1].op = "deliver_tx" /\ out'[1].code = 1) =>
             UNCHANGED <<queues, counters, store, store_lock, poisoned, pc, drained,
                         staged, app_hash>>
       /\ (CommitReturns(out'[1]) /\ staged[1] = <<>>) =>
             /\ UNCHANGED <<store, counters>>
             /\ out'[1].hash = StoreRootHash(store[1])
       /\ \A i \in 1..Len(store'[1].log) :
             store'[1].log[i].op # "commit" => FromVerified(store'[1].log[i].tx_id)
       /\ \A i \in 1..Len(pending_mutation'[1]) : FromVerified(pending_mutation'[1][i][2])
       /\ \A i \in 1..Len(pending_query_session'[1]) :
             FromVerified(pending_query_session'[1][i][3])
       /\ \A i \in 1..Len(pending_databases'[1]) : FromVerified(pending_databases'[1][i][3])
    ]_vars

\* a settlement whose session does not verify has been rejected in a block that
\* has staged nothing, on a node whose store holds a committed block
C16_Witness ==
    /\ out[1].op = "deliver_tx"
    /\ out[1].code = 1
    /\ TxOf(out[1].tx).ptype = "QuerySession"
    /\ TxOf(out[1].tx).body_ok
    /\ staged[1] = <<>>
    /\ QueuesEmpty(1)
    /\ CommitCalls(store[1].log) = 1

(***************************************************************************)
(* C17  info answers with the height and hash of the store's last block    *)
(* state, which is the hash the latest commit returned, and changes        *)
(* nothing: queues, counters, store and the commit in progress are the     *)
(* same after it, wherever in the block cycle it falls.                    *)
(***************************************************************************)
C17_InfoReadsLastBlock ==
    [][out'[1].op = "info" =>
          /\ UNCHANGED <<queues, counters, store, store_lock, poisoned, pc, drained,
                         staged, app_hash>>
          /\ out'[1].code = 0 =>
                /\ out'[1].height = StoreLastBlockState(store[1]).block_height
                /\ out'[1].hash = StoreLastBlockState(store[1]).abci_hash
                /\ app_hash[1] # NoHash => out'[1].hash = app_hash[1]
    ]_vars

\* info has answered between two drains of the commit of a second block, after a
\* first block with a record was committed at height 1
C17_Witness ==
    /\ out[1].op = "info"
    /\ out[1].code = 0
    /\ out[1].height = 1
    /\ out[1].hash = app_hash[1]
    /\ pc[1] = "drain_databases"
    /\ drained[1].m # <<>>

(***************************************************************************)
(* C18  As stated: every deliver_tx answered with code 0 carries the event *)
(* marker of its payload kind, "apply" for a database mutation,            *)
(* "deliver_mutation" for a mutation and "deliver_query_session" for a     *)
(* settlement, and a rejected transaction carries none of these.           *)
(***************************************************************************)
C18_EventMarkerTagsKind ==
    out[1].op = "deliver_tx" =>
        /\ out[1].code = 0 =>
              /\ TxOf(out[1].tx).ptype = "Database" => out[1].event = "apply"
              /\ TxOf(out[1].tx).ptype = "Mutation" => out[1].event = "deliver_mutation"
              /\ TxOf(out[1].tx).ptype = "QuerySession" =>
                    out[1].event = "deliver_query_session"
        /\ out[1].code = 1 =>
              out[1].event \notin {"apply", "deliver_mutation", "deliver_query_session"}

(***************************************************************************)
(* C18  As amended: every deliver_tx answered with code 0 carries the info *)
(* string of its payload kind, "apply_database", "deliver_mutation" or     *)
(* "deliver_query_session", and a rejected one the empty info string; the  *)
(* event type is "apply" for a database mutation and "deliver" for every   *)
(* other response, rejections included.                                    *)
(***************************************************************************)
C18_InfoStringTagsKind ==
    out[1].op = "deliver_tx" =>
        /\ out[1].code \in {0, 1} =>
              out[1].event = IF out[1].code = 0 /\ TxOf(out[1].tx).ptype = "Database"
                             THEN "apply" ELSE "deliver"
        /\ out[1].code = 0 =>
              /\ TxOf(out[1].tx).ptype = "Database" => out[1].info = "apply_database"
              /\ TxOf(out[1].tx).ptype = "Mutation" => out[1].info = "deliver_mutation"
              /\ TxOf(out[1].tx).ptype = "QuerySession" =>
                    out[1].info = "deliver_query_session"
        /\ out[1].code = 1 => out[1].info = ""

\* a staged mutation has been answered with the event type of a rejection
C18_Witness ==
    /\ out[1].op = "deliver_tx"
    /\ out[1].code = 0
    /\ TxOf(out[1].tx).ptype = "Mutation"
    /\ out[1].event = DeliverTxRejected(TxOf(out[1].tx)).event
    /\ out[1].info = "deliver_mutation"

(***************************************************************************)
(* C19  Single writer.  Commit holds the store guard from before its first *)
(* apply call until the store commit or the root-hash read has returned;   *)
(* the store is written only under that guard; info and begin_block take   *)
(* no step while commit holds it, so an info that answers sees a store     *)
(* with no apply call of an unfinished commit in it.                       *)
(***************************************************************************)
InStoreSection(r) ==
    pc[r] \in {"apply_mutation", "apply_query_session", "apply_database", "finish"}

C19_SingleWriter ==
    [][/\ InStoreSection(1) => store_lock[1] = "commit"
       /\ store'[1].log # store[1].log => (InStoreSection(1) /\ store_lock[1] = "commit")
       /\ out'[1].op \in {"info", "begin_block"} =>
             (~InStoreSection(1) /\ store_lock[1] # "commit")
       /\ (out'[1].op = "info" /\ out'[1].code = 0) => AppliedNow(1) = <<>>
    ]_vars

\* commit is between its mutation loop and its settlement loop with one record
\* applied while another connection's call has been answered
C19_Witness ==
    /\ pc[1] = "apply_query_session"
    /\ store_lock[1] = "commit"
    /\ Len(AppliedNow(1)) = 1
    /\ drained[1].q # <<>>
    /\ out[1].op = "query"

(***************************************************************************)
(* C20  deliver_tx is total: whatever the raw transaction, a settlement    *)
(* without node session info included, it answers with code 0 or code 1,   *)
(* and it leaves no queue guard poisoned.                                  *)
(***************************************************************************)
C20_DeliverTxTotal ==
    /\ out[1].op = "deliver_tx" => out[1].code \in {0, 1}
    /\ poisoned[1] = {}

(***************************************************************************)
(* C21  Commit drains the three queues as one atomic step, also when       *)
(* deliver_tx calls run on a second connection: when the last drain is     *)
(* done, the records commit holds are the records staged earliest, so no   *)
(* later-delivered record is in this block while an earlier-delivered      *)
(* record of another kind is left for the next one.                        *)
(***************************************************************************)
DrainedCount(r) == Len(drained[r].m) + Len(drained[r].q) + Len(drained[r].d)

\* the records of a kind among the n records staged earliest
EarliestStaged(r, n, kind) ==
    MapRec(SelectSeq(SubSeq(staged[r], 1, n), LAMBDA e : e.kind = kind))

C21_AtomicDrain ==
    pc[1] = "lock_store" =>
        /\ DrainedCount(1) <= Len(staged[1])
        /\ drained[1].m = EarliestStaged(1, DrainedCount(1), "Mutation")
        /\ drained[1].q = EarliestStaged(1, DrainedCount(1), "QuerySession")
        /\ drained[1].d = EarliestStaged(1, DrainedCount(1), "Database")

(***************************************************************************)
(* C22  Queue guards are held for the enqueue or the drain only.  While    *)
(* commit is in its apply loops or at the store commit, a deliver_tx on a  *)
(* second connection is not kept waiting, a deliver_tx answered with code  *)
(* 0 has put its record on a queue, and no step of commit takes a record   *)
(* off a queue or changes one: what is enqueued then is in the queue when  *)
(* the commit has ended.                                                   *)
(***************************************************************************)
QueuedCount(r) ==
    Len(pending_mutation[r]) + Len(pending_query_session[r]) + Len(pending_databases[r])

C22_QueueFreeDuringApply ==
    [][InStoreSection(1) =>
          /\ Accepted(1) < MaxTx =>
                \A tx \in ConcurrentTxs : ENABLED DeliverTxConcurrent(1, tx)
          /\ IsPrefix(pending_mutation[1], pending_mutation'[1])
          /\ IsPrefix(pending_query_session[1], pending_query_session'[1])
          /\ IsPrefix(pending_databases[1], pending_databases'[1])
          /\ (out'[1].op = "deliver_tx" /\ out'[1].code = 0) =>
                /\ QueuedCount(1)' = QueuedCount(1) + 1
                /\ UNCHANGED <<pc, drained, store, store_lock>>
    ]_vars

\* commit is past its mutation loop with a mutation applied, and the deliver_tx just
\* answered has put a mutation on the queue the commit had emptied
C22_Witness ==
    /\ pc[1] = "apply_database"
    /\ store_lock[1] = "commit"
    /\ CountOp(AppliedNow(1), "apply_mutation") = 1
    /\ out[1].op = "deliver_tx"
    /\ out[1].code = 0
    /\ TxOf(out[1].tx).ptype = "Mutation"
    /\ Len(pending_mutation[1]) = 1

(***************************************************************************)
(* C23  Commit is all-or-nothing: no commit ends having applied only a     *)
(* proper prefix of the records it drained, that is with some records      *)
(* applied to the store and not committed, the others taken off the queues *)
(* and never applied.                                                      *)
(***************************************************************************)
AppliedCount(r) ==
    CountOp(AppliedNow(r), "apply_mutation") + CountOp(AppliedNow(r), "apply_query_session")
    + CountOp(AppliedNow(r), "apply_database")

C23_CommitAllOrNothing ==
    ~ /\ pc[1] = "panicked"
      /\ QueuesEmpty(1)
      /\ 0 < AppliedCount(1)
      /\ AppliedCount(1) < Len(staged[1])

(***************************************************************************)
(* C24  After a fatal failure inside commit the node is unavailable: from  *)
(* then on no check_tx and no deliver_tx is answered with code 0, and no   *)
(* record is added to a queue.                                             *)
(***************************************************************************)
\* commit has aborted with records applied to the store and not committed
CommitFailed(r) == pc[r] = "panicked" /\ AppliedCount(r) > 0

C24_UnavailableAfterFatalCommit ==
    [][CommitFailed(1) =>
          /\ ~(out'[1].op \in {"check_tx", "deliver_tx"} /\ out'[1].code = 0)
          /\ UNCHANGED queues
    ]_vars

(***************************************************************************)
(* C25  Lock poisoning is fatal.  A poisoned guard stays poisoned, and     *)
(* every later call that needs it aborts: info, begin_block and commit at  *)
(* its store lock for the store guard; deliver_tx of that kind and commit  *)
(* at that queue's drain for a queue guard.  None of them answers, and     *)
(* none changes what the guard protects.                                   *)
(***************************************************************************)
QueueOf(r, mutex) ==
    CASE mutex = "pending_mutation" -> pending_mutation[r]
      [] mutex = "pending_query_session" -> pending_query_session[r]
      [] mutex = "pending_databases" -> pending_databases[r]

\* where commit stands when it is about to lock a mutex
LockPoint(mutex) ==
    CASE mutex = "pending_mutation" -> "idle"
      [] mutex = "pending_query_session" -> "drain_query_session"
      [] mutex = "pending_databases" -> "drain_databases"
      [] mutex = "node_store" -> "lock_store"

\* commit does not get past the lock of a mutex: the thread stays where it is or ends
HaltsAt(mutex) ==
    /\ pc[1] = LockPoint(mutex) => pc'[1] \in {pc[1], "panicked"}
    /\ (pc[1] = LockPoint(mutex) /\ out'[1].op = "commit") =>
          (CommitAborts(out'[1]) /\ pc'[1] = "panicked")

C25_PoisoningIsFatal ==
    [][/\ store_lock[1] = "poisoned" =>
             /\ store_lock'[1] = "poisoned"
             /\ UNCHANGED store
             /\ out'[1].op \in {"info", "begin_block"} => out'[1].code = -1
             /\ HaltsAt("node_store")
       /\ \A mutex \in poisoned[1] :
             /\ mutex \in poisoned'[1]
             /\ QueueOf(1, mutex)' = QueueOf(1, mutex)
             /\ (out'[1].op = "deliver_tx" /\ deliver_arm(TxOf(out'[1].tx)) = mutex) =>
                   out'[1].code = -1
             /\ HaltsAt(mutex)
    ]_vars

\* commit has aborted at a drain: the settlement queue was poisoned by a deliver_tx
\* on the second connection, and the store guard was never taken
C25_Witness ==
    /\ "pending_query_session" \in poisoned[1]
    /\ pc[1] = "panicked"
    /\ CommitAborts(out[1])
    /\ store_lock[1] = "free"
    /\ store[1].log = <<>>

\* info has aborted on the store guard that a begin_block on the second connection
\* poisoned, the consensus connection's thread being idle still
C25_WitnessStore ==
    /\ store_lock[1] = "poisoned"
    /\ pc[1] = "idle"
    /\ out[1].op = "info"
    /\ out[1].code = -1

(***************************************************************************)
(* C26  The call order is not re-validated.  Whether a begin_block came    *)
(* before or not, deliver_tx answers by the transaction alone: code 0 and  *)
(* one more staged record exactly when the transaction verifies (and, for  *)
(* a settlement, carries its node session info).  Commit starts from idle  *)
(* whatever came before it, and a commit that returns has applied every    *)
(* record that was staged, begin_block or no begin_block.                  *)
(***************************************************************************)
Stageable(tx) == Verifies(tx) /\ (tx.ptype = "QuerySession" => tx.ninfo)

C26_CallOrderNotValidated ==
    [][/\ out'[1].op = "deliver_tx" =>
             /\ out'[1].code = 0 <=> Stageable(TxOf(out'[1].tx))
             /\ out'[1].code = 0 => Len(staged'[1]) = Len(staged[1]) + 1
       /\ (pc[1] = "idle" /\ ~lock_err(1, "pending_mutation")) =>
             ENABLED CommitDrainMutation(1)
       /\ CommitReturns(out'[1]) =>
             \A kind \in Kinds : AppliedRecs(1, kind) = StagedRecs(1, kind)
    ]_vars

\* a commit has returned a hash for a record delivered and applied on a node that
\* never received a begin_block
C26_Witness ==
    /\ store[1].cur_height = 0
    /\ CommitReturns(out[1])
    /\ Len(store[1].log) = 2
    /\ store[1].log[2] = CommitCall
    /\ app_hash[1] = StoreRootHash(store[1])

(***************************************************************************)
(* C27  Every database mutation the store is handed at commit carries      *)
(* metadata, and the nonce passed with it is the nonce of that metadata:   *)
(* none without metadata is applied, and no other nonce stands in.         *)
(***************************************************************************)
C27_NonceFromMetadata ==
    \A i \in 1..Len(store[1].log) :
        store[1].log[i].op = "apply_database" =>
            /\ store[1].log[i].payload.nonce # 0
            /\ store[1].log[i].nonce = store[1].log[i].payload.nonce

(***************************************************************************)
(* C28  Invariant I4.  The transaction id in a pending record, in a record *)
(* commit holds, and in a call made to the store is the id computed from   *)
(* the raw bytes of the transaction the record was made from, and from     *)
(* nothing else: records made from the same bytes, in whatever state and   *)
(* block they were delivered, carry equal ids.                             *)
(***************************************************************************)
Range(seq) == {seq[i] : i \in 1..Len(seq)}

\* <<raw transaction, transaction id>> of every record the node holds or has applied
RecordIds(r) ==
    {<<rec[3].of, rec[2]>> : rec \in Range(pending_mutation[r]) \cup Range(drained[r].m)}
    \cup {<<rec[4].of, rec[3]>> :
             rec \in Range(pending_query_session[r]) \cup Range(drained[r].q)}
    \cup {<<rec[2].of, rec[3]>> : rec \in Range(pending_databases[r]) \cup Range(drained[r].d)}
    \cup {<<e.payload.of, e.tx_id>> : e \in {c \in Range(store[r].log) : c.op # "commit"}}

C28_TxIdFromRawBytes ==
    /\ \A p \in RecordIds(1) : p[2] = TxIdFrom(TxOf(p[1]))
    /\ \A p, q \in RecordIds(1) : p[1] = q[1] => p[2] = q[2]

\* the same raw transaction has been delivered in two blocks: applied and committed
\* in the first, applied again in the second
C28_Witness ==
    /\ Len(store[1].log) = 3
    /\ store[1].log[2] = CommitCall
    /\ store[1].log[1].payload.of = store[1].log[3].payload.of
    /\ store[1].log[1].tx_id = store[1].log[3].tx_id
    /\ store[1].cur_height = 1

(***************************************************************************)
(* C29  Exhaustive kind dispatch.  An envelope that decodes and whose      *)
(* signature verifies, but whose payload kind is none of the three, is     *)
(* answered with code 1 by check_tx (log "bad request") and by deliver_tx, *)
(* and the step leaves the queues, the counters and the store as they      *)
(* were: it is neither accepted nor passed over without an answer.         *)
(***************************************************************************)
UnknownKind(tx) == tx.env_ok /\ tx.sig_ok /\ tx.ptype \notin Kinds

C29_UnknownKindRejected ==
    [][(out'[1].op \in {"check_tx", "deliver_tx"} /\ UnknownKind(TxOf(out'[1].tx))) =>
          /\ out'[1].code = 1
          /\ out'[1].op = "check_tx" => out'[1].log = "bad request"
          /\ UNCHANGED <<queues, staged, counters, store, poisoned, pc>>
    ]_vars

\* deliver_tx has turned down a signed envelope of unknown kind while a record
\* staged before it waits in its queue
C29_Witness ==
    /\ out[1].op = "deliver_tx"
    /\ out[1].code = 1
    /\ UnknownKind(TxOf(out[1].tx))
    /\ Len(staged[1]) = 1
    /\ QueuedCount(1) = 1

\* check_tx has turned down the same envelope
C29_WitnessCheckTx ==
    /\ out[1].op = "check_tx"
    /\ out[1].code = 1
    /\ UnknownKind(TxOf(out[1].tx))

(***************************************************************************)
(* C30  The counters never decrease, whatever the commits: an addition     *)
(* that would take total_storage_bytes, total_mutations or                 *)
(* total_query_sessions past the largest value of its width does not wrap  *)
(* around to a smaller one.                                                *)
(***************************************************************************)
C30_CountersNeverDecrease ==
    [][/\ total_storage_bytes'[1] >= total_storage_bytes[1]
       /\ total_mutations'[1] >= total_mutations[1]
       /\ total_query_sessions'[1] >= total_query_sessions[1]
    ]_vars

(***************************************************************************)
(* C31  Startup ordering.  The ABCI service runs only after the store's    *)
(* init has succeeded, so that until then no handler has answered a call   *)
(* or touched the store; when init fails the start command returns with no *)
(* service started.                                                        *)
(***************************************************************************)
C31_StartupOrdering ==
    \A r \in Replicas :
        /\ start[r].services # {} => start[r].init = "ok"
        /\ r \in active => (start[r].init = "ok" /\ "abci" \in start[r].services)
        /\ start[r].init = "failed" => (start[r].at = "returned" /\ start[r].services = {})
        /\ start[r].init # "ok" => (out[r] = NoResponse /\ store[r] = NewStore)

\* the handlers have committed a record on a node whose store init succeeded and
\* whose three services are up
C31_Witness ==
    /\ start[1] = Started
    /\ 1 \in active
    /\ CommitReturns(out[1])
    /\ Len(store[1].log) = 2

\* init has failed and the start command has returned
C31_WitnessInitFailed ==
    /\ start[1].init = "failed"
    /\ start[1].at = "returned"
    /\ 1 \notin active

(***************************************************************************)
(* C32  Deadlock freedom.  No call holds two of the four guards at once:   *)
(* a step takes at most one queue guard; a step of commit that takes a     *)
(* queue guard is taken without the store guard, and the step that takes   *)
(* the store guard touches no queue; deliver_tx never takes the store      *)
(* guard, info and begin_block never a queue guard.  So, with the commit   *)
(* thread scheduled fairly and the store applying every record, a commit   *)
(* that has begun returns, and the store guard it holds becomes free for   *)
(* the info or begin_block that waits for it.                              *)
(***************************************************************************)
\* the queue guards a step takes: those of the queues it changes
QueueGuardsTaken ==
    {mutex \in {"pending_mutation", "pending_query_session", "pending_databases"} :
        QueueOf(1, mutex)' # QueueOf(1, mutex)}

OneGuardPerCall ==
    /\ Cardinality(QueueGuardsTaken) <= 1
    /\ (QueueGuardsTaken # {} /\ pc'[1] # pc[1]) =>
          (store_lock[1] # "commit" /\ store_lock'[1] # "commit")
    /\ store_lock'[1] # store_lock[1] => QueueGuardsTaken = {}
    /\ out'[1].op = "deliver_tx" => UNCHANGED <<store, store_lock>>
    /\ out'[1].op \in {"info", "begin_block"} => QueueGuardsTaken = {}

DrainedOf(r, kind) ==
    CASE kind = "Mutation" -> drained[r].m
      [] kind = "QuerySession" -> drained[r].q
      [] kind = "Database" -> drained[r].d

QueuedOf(r, kind) ==
    CASE kind = "Mutation" -> pending_mutation[r]
      [] kind = "QuerySession" -> pending_query_session[r]
      [] kind = "Database" -> pending_databases[r]

InOnePlace(r) ==
    \A kind \in Kinds :
        StagedRecs(r, kind) = AppliedRecs(r, kind) \o DrainedOf(r, kind) \o QueuedOf(r, kind)

C34_AdmissionImpliesStaging ==
    [][(out'[1].op = "deliver_tx" /\ check_tx(TxOf(out'[1].tx)) = CheckTxOk) =>
          /\ out'[1].code = 0
          /\ QueuedCount(1)' = QueuedCount(1) + 1
    ]_vars

(***************************************************************************)
(* C35  begin_block is total: whatever the request, a missing header or a  *)
(* header without a time included, begin_block returns its acknowledgement *)
(* and leaves the store guard unpoisoned, so that the info, begin_block    *)
(* and commit calls that follow still answer.                              *)
(***************************************************************************)
C35_BeginBlockTotal ==
    [][out'[1].op = "begin_block" =>
          /\ out'[1].code = 0
          /\ store_lock'[1] # "poisoned"
          /\ pc'[1] # "panicked"
    ]_vars

(***************************************************************************)
(* The console client (cmd/src/lib.rs).  process_cmd splits the line it    *)
(* is given on single spaces, so two spaces in a row give an empty part;   *)
(* the model takes the parts as its input.  Parts are numbered from 0 in   *)
(* the source and from 1 here: parts[j] of the source is parts[j + 1].     *)
(***************************************************************************)
\* the longest command line, in parts, the command word included
MaxParts == 5

\* the command words: one per arm of process_cmd and one it does not know
Commands == {"help", "account", "range", "blocks", "get", "put", "del", "scan"}

\* what follows the command word; "" is the part between two spaces in a row
Tokens == {"ns1", "k1", "v1", "k2", ""}

RECURSIVE SeqsOf(_, _)
SeqsOf(S, n) ==
    IF n = 0 THEN {<<>>}
    ELSE LET shorter == SeqsOf(S, n - 1)
         IN  shorter \cup {Append(q, t) : q \in {p \in shorter : Len(p) = n - 1}, t \in S}

\* the command lines given to the console, split
CommandLines == {<<c>> \o rest : c \in Commands, rest \in SeqsOf(Tokens, MaxParts - 1)}

KvPair(key, value, action) == [key |-> key, value |-> value, action |-> action]

\* a call of process_cmd that printed a message and submitted nothing
printed_only(message) == [printed |-> message, submitted |-> <<>>]

\* the mutation process_cmd builds from the pairs and submits, and the
\* message it prints for the answer of the node
submit_mutation(ns, pairs, submit_ok) ==
    [printed   |-> IF submit_ok THEN "submit mutation to mempool done!"
                   ELSE "fail to submit mutation to mempool",
     submitted |-> <<[ns |-> ns, kv_pairs |-> pairs]>>]

\* the put arm's loop: for i in 1..parts.len() / 2, the pair of parts[i * 2]
\* and parts[i * 2 + 1]
put_pairs(parts) ==
    [i \in 1 .. (Len(parts) \div 2) - 1 |->
        KvPair(parts[i * 2 + 1], parts[i * 2 + 2], "InsertKv")]

\* the del arm's loop: for i in 2..parts.len(), a deletion of parts[i]
del_pairs(parts) ==
    [i \in 1 .. Len(parts) - 2 |-> KvPair(parts[i + 2], "", "DeleteKv")]

\* process_cmd on a split command line; remote_ok is the outcome of the one
\* call the command makes to the node
process_cmd(parts, remote_ok) ==
    LET cmd == parts[1]
    IN  IF cmd = "help" THEN printed_only("HELP")
        ELSE IF cmd = "account" THEN printed_only("account")
        ELSE IF cmd \in {"range", "blocks"} THEN printed_only("to be provided")
        ELSE IF Len(parts) < 3 THEN printed_only("no enough command")
        ELSE LET ns == parts[2]
             IN  CASE cmd = "get" ->
                        printed_only(IF remote_ok THEN "values" ELSE "empty set")
                   [] cmd = "put" ->
                        IF Len(parts) < 4 THEN printed_only("no enough command")
                        ELSE submit_mutation(ns, put_pairs(parts), remote_ok)
                   [] cmd = "del" ->
                        submit_mutation(ns, del_pairs(parts), remote_ok)
                   [] OTHER -> printed_only("not yet implemented")

\* a console that has read a command line and has not yet run process_cmd on it
Typed(parts) == [parts |-> parts, printed |-> "", submitted |-> <<>>]

InitConsole ==
    /\ InitNode
    /\ active = {1}
    /\ start = [r \in Replicas |-> Started]
    /\ console \in {Typed(parts) : parts \in CommandLines}

\* process_cmd runs on the command line read; every path of it prints
ProcessCmd(remote_ok) ==
    /\ console.printed = ""
    /\ console' = [parts |-> console.parts] @@ process_cmd(console.parts, remote_ok)
    /\ UNCHANGED <<handler_state, active, start>>

NextConsole == \E remote_ok \in BOOLEAN : ProcessCmd(remote_ok)

SpecConsole == InitConsole /\ [][NextConsole]_vars

\* the tokens typed after the namespace of the last command line
TypedTokens == SubSeq(console.parts, 3, Len(console.parts))

\* process_cmd has run on a put with a namespace and at least one complete pair
PutGiven ==
    /\ console.printed # ""
    /\ Len(console.parts) >= 4
    /\ console.parts[1] = "put"

\* the keys typed in a put: the tokens at the odd places after the namespace
TypedKeys == {TypedTokens[j] : j \in {n \in 1 .. Len(TypedTokens) : n % 2 = 1}}

\* the mutation submitted is one on the namespace typed, whose pairs are the
\* complete pairs of the tokens typed, in order, each an insertion
PutPairsComplete ==
    /\ Len(console.submitted) = 1
    /\ console.submitted[1].ns = console.parts[2]
    /\ Len(console.submitted[1].kv_pairs) = Len(TypedTokens) \div 2
    /\ \A i \in 1 .. Len(TypedTokens) \div 2 :
          console.submitted[1].kv_pairs[i]
              = KvPair(TypedTokens[2 * i - 1], TypedTokens[2 * i], "InsertKv")

\* C36: a put command with a namespace and k further tokens builds exactly
\* one mutation whose pairs are the complete (key, value) pairs of the tokens,
\* pair i being token 2i-1 and token 2i with action InsertKv, and every key
\* the user typed appears in the mutation: no trailing token is dropped.
C36_PutBuildsEveryPair ==
    PutGiven =>
        /\ PutPairsComplete
        /\ \A key \in TypedKeys :
              \E i \in DOMAIN console.submitted[1].kv_pairs :
                  console.submitted[1].kv_pairs[i].key = key

====
